---- MODULE Spec2Model ----
(***************************************************************************)
(* Model of the confidence-set inversion, interval-set algebra, input      *)
(* validation and entry-point guards of ivrobust.                          *)
(*                                                                         *)
(* Numbers.  Floats are modelled by integers on a fixed scale; the three   *)
(* non-finite floats are the sentinels NegInf, PosInf and NaN.  Betas are  *)
(* scaled so that one grid step is GridUnit, a power of two large enough   *)
(* that every bisection midpoint 0.5*(a+b) the code can compute within     *)
(* MaxRefineIter iterations is exact.  P-values are scaled so that 1.0 is  *)
(* AlphaOne.                                                               *)
(*                                                                         *)
(* Specifications.  Spec: one call of invert_test or invert_pvalue_grid.   *)
(* SpecIS: one IntervalSet operation.  SpecData: one construction of       *)
(* IVData.  SpecEntry: one call of an entry point on validated data.       *)
(* SpecCov: one call of a covariance routine.  SpecTest: one call of the   *)
(* reduced form or of a test.  SpecRepeat: repeated calls of invert_test   *)
(* with the same arguments.  SpecSet: one call of a confidence-set         *)
(* routine, with the result it returns.  SpecFrom: one call of             *)
(* IVData.from_arrays.  SpecScale: one test on a dataset and on the same   *)
(* dataset with rescaled instruments.  The variables of the other parts    *)
(* keep their idle values in each of them.                                 *)
(***************************************************************************)
EXTENDS Integers, Sequences, FiniteSets, TLC

(***************************************************************************)
(* Bounds of the model.                                                    *)
(***************************************************************************)
MaxIntervals == 2
MaxOther == 1
MaxRefineIter == 2
MaxGrid == 4
MaxDim == 2
MaxRows == 4
MaxEndog == 2

(***************************************************************************)
(* Floats.                                                                 *)
(***************************************************************************)
PosInf == 1000000
NegInf == -1000000
NaN == 2000000

IsNaN(v) == v = NaN
IsInf(v) == v = PosInf \/ v = NegInf
IsFinite(v) == ~IsNaN(v) /\ ~IsInf(v)

\* IEEE comparisons: every comparison with NaN is false.
FLt(a, b) == ~IsNaN(a) /\ ~IsNaN(b) /\ a < b
FLe(a, b) == ~IsNaN(a) /\ ~IsNaN(b) /\ a <= b
FGe(a, b) == FLe(b, a)
FGt(a, b) == FLt(b, a)

\* Python's max(a, b): b if b > a else a.
PyMax(a, b) == IF FGt(b, a) THEN b ELSE a

(***************************************************************************)
(* IntervalSet (intervals.py).  An interval set is a sequence of pairs     *)
(* <<lower, upper>>.                                                       *)
(***************************************************************************)
IntervalSet_contains(S, x) ==
    \E i \in 1..Len(S) : FLe(S[i][1], x) /\ FLe(x, S[i][2])

IntervalSet_is_empty(S) == Len(S) = 0

\* key=lambda pair: (pair[0], pair[1])
PairLe(p, q) == p[1] < q[1] \/ (p[1] = q[1] /\ p[2] <= q[2])

RECURSIVE InsertSorted(_, _)
InsertSorted(S, p) ==
    IF S = <<>> THEN <<p>>
    ELSE IF PairLe(p, Head(S)) /\ p # Head(S) THEN <<p>> \o S
    ELSE <<Head(S)>> \o InsertSorted(Tail(S), p)

RECURSIVE Sorted(_)
Sorted(S) ==
    IF S = <<>> THEN <<>>
    ELSE InsertSorted(Sorted(SubSeq(S, 1, Len(S) - 1)), S[Len(S)])

\* The merge loop of normalized(): np.isinf(prev_hi) is true of -inf too.
RECURSIVE MergeLoop(_, _)
MergeLoop(merged, rest) ==
    IF rest = <<>> THEN merged
    ELSE LET lo == Head(rest)[1]
             hi == Head(rest)[2]
             prev_lo == merged[Len(merged)][1]
             prev_hi == merged[Len(merged)][2]
         IN IF FLe(lo, prev_hi) \/ IsInf(prev_hi)
            THEN MergeLoop([merged EXCEPT ![Len(merged)] = <<prev_lo, PyMax(prev_hi, hi)>>],
                           Tail(rest))
            ELSE MergeLoop(Append(merged, <<lo, hi>>), Tail(rest))

IntervalSet_normalized(S) ==
    IF S = <<>> THEN <<>>
    ELSE LET intervals == Sorted(S)
         IN MergeLoop(<<Head(intervals)>>, Tail(intervals))

IntervalSet_union(S, other) == IntervalSet_normalized(S \o other)

IntervalSet_is_disjoint(S) == Len(IntervalSet_normalized(S)) > 1

\* Variant of to_dict that writes the normalized intervals.
IntervalSet_to_dict_normalized(S) == [intervals |-> IntervalSet_normalized(S)]

\* to_dict: {"intervals": [(float(lo), float(hi)) ...]}
IntervalSet_to_dict(S) ==
    [intervals |-> [i \in 1..Len(S) |-> <<S[i][1], S[i][2]>>]]

\* from_dict: payload.get("intervals", []), each pair of length 2.
IntervalSet_from_dict(payload) ==
    LET intervals == IF "intervals" \in DOMAIN payload THEN payload.intervals ELSE <<>>
    IN IF \E i \in 1..Len(intervals) : Len(intervals[i]) # 2
       THEN [err |-> "ValueError", intervals |-> <<>>]
       ELSE [err |-> "none",
             intervals |-> [i \in 1..Len(intervals) |-> <<intervals[i][1], intervals[i][2]>>]]

(***************************************************************************)
(* Scales.  GridUnit is the beta distance 1.0 and the least spacing of the *)
(* grids; AlphaOne is the p-value 1.0.                                     *)
(***************************************************************************)
RECURSIVE Pow2(_)
Pow2(n) == IF n = 0 THEN 1 ELSE 2 * Pow2(n - 1)

GridUnit == Pow2(MaxRefineIter + 1)
AlphaOne == 2 * 2

\* the largest finite float
FloatMax == PosInf - 1

\* 0.5 * (a + b).  The integers are the floats of the model: a sum beyond
\* the largest float is an infinity, and a midpoint that falls between two
\* floats is rounded to the even one, as IEEE addition rounds a + b.
Half(s) ==
    IF s > FloatMax THEN PosInf
    ELSE IF s < -FloatMax THEN NegInf
    ELSE IF s % 2 = 0 THEN s \div 2
    ELSE IF ((s - 1) \div 2) % 2 = 0 THEN (s - 1) \div 2 ELSE (s + 1) \div 2

FSub(p, q) == IF IsNaN(p) \/ IsNaN(q) THEN NaN ELSE p - q
FEqZero(v) == v = 0
ProdPos(u, v) == ~IsNaN(u) /\ ~IsNaN(v) /\ ((u > 0 /\ v > 0) \/ (u < 0 /\ v < 0))
ProdNonPos(u, v) == ~IsNaN(u) /\ ~IsNaN(v) /\ ~ProdPos(u, v)
AbsLe(v, t) == ~IsNaN(v) /\ v <= t /\ -v <= t

\* refine_tol, in halves of 1.0, on the p-value scale and on the beta scale.
TolP(tol2) == (tol2 * AlphaOne) \div 2
TolB(tol2) == (tol2 * GridUnit) \div 2

\* 0 < alpha < 1
AlphaValid(a) == FLt(0, a) /\ FLt(a, AlphaOne)

(***************************************************************************)
(* A p-value function test_fn: beta -> p-value.  It is given by its values *)
(* vs at the betas xs and a rule for every other beta: a constant c, or    *)
(* the value at the nearest of the xs (the right one on a tie).            *)
(***************************************************************************)
SetMax(S) == CHOOSE m \in S : \A q \in S : q <= m
SetMin(S) == CHOOSE m \in S : \A q \in S : m <= q

EvalFn(f, b) ==
    IF ~IsFinite(b) THEN NaN
    ELSE LET at == {i \in 1..Len(f.xs) : f.xs[i] = b}
             below == {i \in 1..Len(f.xs) : IsFinite(f.xs[i]) /\ f.xs[i] < b}
             above == {i \in 1..Len(f.xs) : IsFinite(f.xs[i]) /\ f.xs[i] > b}
         IN IF at # {} THEN f.vs[SetMin(at)]
            ELSE IF f.kind = "const" \/ (below = {} /\ above = {}) THEN f.c
            ELSE IF below = {} THEN f.vs[SetMin(above)]
            ELSE IF above = {} THEN f.vs[SetMax(below)]
            ELSE LET l == CHOOSE i \in below : \A j \in below : f.xs[j] <= f.xs[i]
                     r == CHOOSE i \in above : \A j \in above : f.xs[i] <= f.xs[j]
                 IN IF b - f.xs[l] < f.xs[r] - b THEN f.vs[l] ELSE f.vs[r]

(***************************************************************************)
(* invert_pvalue_grid (intervals.py).                                      *)
(***************************************************************************)
\* The bisection loop, lines 145-157; calls lists the betas at which the
\* p-value function has been called.
RECURSIVE BisectLoop(_, _, _, _, _, _, _, _)
BisectLoop(f, alpha, tol2, iters, left, right, fa, calls) ==
    IF iters = 0 THEN [val |-> Half(left + right), calls |-> calls]
    ELSE LET mid == Half(left + right)
             fm == FSub(EvalFn(f, mid), alpha)
             calls2 == Append(calls, mid)
         IN IF AbsLe(fm, TolP(tol2)) \/ AbsLe(right - left, TolB(tol2))
            THEN [val |-> mid, calls |-> calls2]
            ELSE IF ProdNonPos(fa, fm)
                 THEN BisectLoop(f, alpha, tol2, iters - 1, left, mid, fa, calls2)
                 ELSE BisectLoop(f, alpha, tol2, iters - 1, mid, right, fm, calls2)

\* Variant of bisect whose loop runs once more than max_refine_iter.
BisectOneMore(f, hasF, alpha, tol2, maxIter, a, b) ==
    IF ~hasF THEN [val |-> Half(a + b), calls |-> <<>>]
    ELSE LET fa == FSub(EvalFn(f, a), alpha)
             fb == FSub(EvalFn(f, b), alpha)
         IN IF FEqZero(fa) THEN [val |-> a, calls |-> <<a, b>>]
            ELSE IF FEqZero(fb) THEN [val |-> b, calls |-> <<a, b>>]
            ELSE IF ProdPos(fa, fb) THEN [val |-> Half(a + b), calls |-> <<a, b>>]
            ELSE BisectLoop(f, alpha, tol2, maxIter + 1, a, b, fa, <<a, b>>)

\* bisect(a, b), lines 133-157.
Bisect(f, hasF, alpha, tol2, maxIter, a, b) ==
    IF ~hasF THEN [val |-> Half(a + b), calls |-> <<>>]
    ELSE LET fa == FSub(EvalFn(f, a), alpha)
             fb == FSub(EvalFn(f, b), alpha)
         IN IF FEqZero(fa) THEN [val |-> a, calls |-> <<a, b>>]
            ELSE IF FEqZero(fb) THEN [val |-> b, calls |-> <<a, b>>]
            ELSE IF ProdPos(fa, fb) THEN [val |-> Half(a + b), calls |-> <<a, b>>]
            ELSE BisectLoop(f, alpha, tol2, maxIter, a, b, fa, <<a, b>>)

\* Variants of the acceptance rule: strict, and one accepting NaN p-values.
InsideStrict(pvals, alpha) == [i \in 1..Len(pvals) |-> FGt(pvals[i], alpha)]
InsideNotBelow(pvals, alpha) == [i \in 1..Len(pvals) |-> ~FLt(pvals[i], alpha)]

\* inside = pvals >= alpha; idx = np.flatnonzero(inside)
Inside(pvals, alpha) == [i \in 1..Len(pvals) |-> FGe(pvals[i], alpha)]

\* np.flatnonzero(inside): the indices of the true entries, increasing.
FlatNonZero(inside) ==
    SelectSeq([i \in 1..Len(inside) |-> i], LAMBDA i : inside[i])

\* Lines 118-128.  The loop closes a segment (start, prev) at every index j
\* of idx with j # prev + 1 and after the last index: segment k runs from
\* the k-th index without its predecessor in idx to the k-th index without
\* its successor in idx.
Segments(idx) ==
    LET pos == [k \in 1..Len(idx) |-> k]
        starts == SelectSeq(pos, LAMBDA k : k = 1 \/ idx[k] # idx[k - 1] + 1)
        ends == SelectSeq(pos, LAMBDA k : k = Len(idx) \/ idx[k + 1] # idx[k] + 1)
    IN [k \in 1..Len(starts) |-> <<idx[starts[k]], idx[ends[k]]>>]

\* Variant of the refinement loop that refines the sides at the grid's ends
\* like any other side (against the end point itself).
RefineSegmentEnds(grid, seg, f, hasF, alpha, refine, tol2, maxIter) ==
    LET bl == IF refine
              THEN Bisect(f, hasF, alpha, tol2, maxIter,
                          grid[IF seg[1] = 1 THEN 1 ELSE seg[1] - 1], grid[seg[1]])
              ELSE [val |-> grid[seg[1]], calls |-> <<>>]
        br == IF refine
              THEN Bisect(f, hasF, alpha, tol2, maxIter, grid[seg[2]],
                          grid[IF seg[2] = Len(grid) THEN seg[2] ELSE seg[2] + 1])
              ELSE [val |-> grid[seg[2]], calls |-> <<>>]
    IN [lo |-> IF seg[1] = 1 THEN NegInf ELSE bl.val,
        hi |-> IF seg[2] = Len(grid) THEN PosInf ELSE br.val,
        seg |-> seg, callsL |-> bl.calls, callsR |-> br.calls]

RefineSegment(grid, seg, f, hasF, alpha, refine, tol2, maxIter) ==
    LET unbounded_left == seg[1] = 1
        unbounded_right == seg[2] = Len(grid)
        bl == IF refine /\ ~unbounded_left
              THEN Bisect(f, hasF, alpha, tol2, maxIter, grid[seg[1] - 1], grid[seg[1]])
              ELSE [val |-> grid[seg[1]], calls |-> <<>>]
        br == IF refine /\ ~unbounded_right
              THEN Bisect(f, hasF, alpha, tol2, maxIter, grid[seg[2]], grid[seg[2] + 1])
              ELSE [val |-> grid[seg[2]], calls |-> <<>>]
    IN [lo |-> IF unbounded_left THEN NegInf ELSE bl.val,
        hi |-> IF unbounded_right THEN PosInf ELSE br.val,
        seg |-> seg,
        callsL |-> bl.calls,
        callsR |-> br.calls]

GridFinite(grid) == \A i \in 1..Len(grid) : IsFinite(grid[i])
\* Variant of the monotonicity check that lets repeated grid points through.
GridNonDecreasing(grid) == \A i \in 1..(Len(grid) - 1) : grid[i + 1] - grid[i] >= 0

GridIncreasing(grid) == \A i \in 1..(Len(grid) - 1) : grid[i + 1] - grid[i] > 0

Returned(trace) ==
    [err |-> "none",
     intervals |-> [i \in 1..Len(trace) |-> <<trace[i].lo, trace[i].hi>>],
     trace |-> trace]
Raised(e) == [err |-> e, intervals |-> <<>>, trace |-> <<>>]

invert_pvalue_grid(grid, pvalues, alpha, refine, tol2, maxIter, hasF, f) ==
    IF ~AlphaValid(alpha) THEN Raised("ValueError")
    ELSE IF Len(grid) # Len(pvalues) THEN Raised("ValueError")
    ELSE IF Len(grid) = 0 THEN Returned(<<>>)
    ELSE IF ~GridFinite(grid) THEN Raised("ValueError")
    ELSE IF ~GridIncreasing(grid) THEN Raised("ValueError")
    ELSE LET idx == FlatNonZero(Inside(pvalues, alpha))
         IN IF Len(idx) = 0 THEN Returned(<<>>)
            ELSE IF refine /\ ~hasF THEN Raised("ValueError")
            ELSE LET segments == Segments(idx)
                 IN Returned([j \in 1..Len(segments) |->
                        RefineSegment(grid, segments[j], f, hasF, alpha,
                                      refine, tol2, maxIter)])

(***************************************************************************)
(* State.                                                                  *)
(***************************************************************************)
VARIABLES
    \* one call of invert_test or invert_pvalue_grid
    pc, entry, alpha, grid_spec, inversion_spec, has_fn, test_fn,
    grid, pvals, evaluations, result,
    \* one IntervalSet operation
    isOp, isSelf, isOther, isX, isOut,
    \* one call of an entry point
    ep, epOut,
    \* one construction IVData(y, d, x, z, clusters)
    dPc, dIn, dOut,
    \* one covariance request
    cv, cvOut,
    \* one call of a test
    tq, tOut,
    \* repeated calls of invert_test with the same arguments
    rq, rOut,
    \* one call of a confidence-set routine
    sq, sOut

invVars == <<pc, entry, alpha, grid_spec, inversion_spec, has_fn, test_fn,
             grid, pvals, evaluations, result>>
isVars == <<isOp, isSelf, isOther, isX, isOut>>
epVars == <<ep, epOut>>
dVars == <<dPc, dIn, dOut>>
cvVars == <<cv, cvOut>>
tVars == <<tq, tOut>>
rVars == <<rq, rOut>>
sVars == <<sq, sOut>>
xVars == <<cvVars, tVars, rVars, sVars>>
vars == <<invVars, isVars, epVars, dVars, xVars>>

(***************************************************************************)
(* invert_test (weakiv/inversion.py).                                      *)
(***************************************************************************)
MinNGrid == 301
MinExplicitGrid == 3

\* np.linspace(lo, hi, n)
Linspace(lo, hi, n) == [i \in 1..n |-> lo + ((i - 1) * (hi - lo)) \div (n - 1)]

NoFn == [xs |-> <<>>, vs |-> <<>>, kind |-> "const", c |-> 0]
NoResult == [err |-> "pending", intervals |-> <<>>, trace |-> <<>>]

\* Lines 35-51: the grid invert_test evaluates, or the error it raises.
InvertTestGrid(a, gs) ==
    IF ~AlphaValid(a) THEN [err |-> "ValueError", grid |-> <<>>]
    ELSE IF ~gs.has_grid
    THEN IF ~gs.has_bounds THEN [err |-> "ValueError", grid |-> <<>>]
         ELSE IF ~IsFinite(gs.lo) \/ ~IsFinite(gs.hi) \/ gs.lo >= gs.hi
              THEN [err |-> "ValueError", grid |-> <<>>]
         ELSE IF gs.n_grid < MinNGrid THEN [err |-> "ValueError", grid |-> <<>>]
         ELSE [err |-> "none", grid |-> Linspace(gs.lo, gs.hi, gs.n_grid)]
    ELSE IF Len(gs.grid) < MinExplicitGrid THEN [err |-> "ValueError", grid |-> <<>>]
         ELSE [err |-> "none", grid |-> gs.grid]

(***************************************************************************)
(* Inputs of the inversion.                                                *)
(***************************************************************************)
Positions == [i \in 1..MaxGrid |-> (i - 1) * GridUnit]
PVals == {0, AlphaOne \div 2}
Alphas == {0, AlphaOne \div 4, AlphaOne \div 2, AlphaOne, NaN}

Rules == {[kind |-> "nearest", c |-> 0]}
         \cup {[kind |-> "const", c |-> v] : v \in PVals \cup {AlphaOne, NaN}}

TestFns == {[xs |-> Positions, vs |-> v, kind |-> r.kind, c |-> r.c] :
                v \in [1..MaxGrid -> PVals], r \in Rules}

\* grid without its i-th point
Without(g, i) == [j \in 1..(Len(g) - 1) |-> IF j < i THEN g[j] ELSE g[j + 1]]

\* three neighbouring floats around the grid point 1.0
AdjacentGrid == <<GridUnit - 1, GridUnit, GridUnit + 1>>

\* three grid points at the top of the float range
HugeGrid == <<FloatMax - 2 * GridUnit, FloatMax - GridUnit, FloatMax>>

GoodGrids ==
    {Positions} \cup {Without(Positions, i) : i \in 1..MaxGrid}
    \cup {AdjacentGrid, HugeGrid}

\* p-value functions given on the grid at the top of the float range
HugeFns == {[xs |-> HugeGrid, vs |-> v, kind |-> "const", c |-> NaN] :
                v \in [1..Len(HugeGrid) -> PVals]}
BadGrids == {[Positions EXCEPT ![2] = Positions[1]],
             [Positions EXCEPT ![2] = Positions[3], ![3] = Positions[2]],
             [Positions EXCEPT ![MaxGrid] = PosInf],
             [Positions EXCEPT ![1] = NaN]}
ShortGrids == {SubSeq(Positions, 1, n) : n \in 0..(MinExplicitGrid - 1)}

Explicit(g) == [has_grid |-> TRUE, grid |-> g, has_bounds |-> FALSE,
                lo |-> 0, hi |-> 0, n_grid |-> 0]
Generated(lo, hi, n) == [has_grid |-> FALSE, grid |-> <<>>, has_bounds |-> TRUE,
                         lo |-> lo, hi |-> hi, n_grid |-> n]

GridSpecs ==
    {Explicit(g) : g \in GoodGrids \cup BadGrids \cup ShortGrids}
    \cup {[Explicit(Positions) EXCEPT !.has_bounds = TRUE, !.lo = GridUnit, !.hi = GridUnit]}
    \cup {[Generated(0, 0, MinNGrid) EXCEPT !.has_bounds = FALSE]}
    \cup {Generated(0, (MinNGrid - 1) * GridUnit, MinNGrid),
          Generated(0, (MinNGrid - 1) * GridUnit, MinNGrid - 1),
          Generated(0, MinNGrid - 2, MinNGrid),
          Generated(GridUnit, GridUnit, MinNGrid),
          Generated(GridUnit, 0, MinNGrid),
          Generated(0, PosInf, MinNGrid),
          Generated(NaN, GridUnit, MinNGrid)}

InvSpec(r, t, m) == [refine |-> r, refine_tol |-> t, max_refine_iter |-> m]
InvSpecs == {InvSpec(FALSE, 0, MaxRefineIter)}
            \cup {InvSpec(TRUE, t, m) : t \in {0, 1}, m \in {0, MaxRefineIter}}

\* Direct calls of invert_pvalue_grid: any grid, p-values given by the caller.
DirectGrids == {SubSeq(Positions, 1, n) : n \in 0..MaxGrid} \cup BadGrids
DirectFn(g, pv, r) == [xs |-> SubSeq(g, 1, Len(pv)), vs |-> pv, kind |-> r.kind, c |-> r.c]

InvIdle ==
    /\ pc = "idle" /\ entry = "none" /\ alpha = 0
    /\ grid_spec = Explicit(<<>>) /\ inversion_spec = InvSpec(FALSE, 0, 0)
    /\ has_fn = FALSE /\ test_fn = NoFn
    /\ grid = <<>> /\ pvals = <<>> /\ evaluations = 0 /\ result = NoResult

InitInvertTest ==
    /\ pc = "call" /\ entry = "invert_test"
    /\ alpha \in Alphas
    /\ grid_spec \in GridSpecs
    /\ inversion_spec \in InvSpecs
    /\ has_fn = TRUE /\ test_fn = NoFn
    /\ grid = <<>> /\ pvals = <<>> /\ evaluations = 0 /\ result = NoResult

InitInvertDirect ==
    /\ pc = "call" /\ entry = "invert_pvalue_grid"
    /\ alpha \in {0, AlphaOne \div 4, AlphaOne \div 2}
    /\ grid_spec = Explicit(<<>>)
    /\ inversion_spec \in {InvSpec(FALSE, 0, MaxRefineIter), InvSpec(TRUE, 0, MaxRefineIter)}
    /\ grid \in DirectGrids
    /\ \E n \in {Len(grid), Len(grid) - 1} :
          /\ n >= 0
          /\ pvals \in [1..n -> PVals]
    /\ has_fn \in BOOLEAN
    /\ \E r \in Rules :
          test_fn = IF has_fn THEN DirectFn(grid, pvals, r) ELSE NoFn
    /\ evaluations = 0 /\ result = NoResult

\* invert_test, lines 35-51.
InvertTestValidate ==
    /\ pc = "call" /\ entry = "invert_test"
    /\ LET g == InvertTestGrid(alpha, grid_spec)
       IN IF g.err # "none"
          THEN /\ pc' = "raised"
               /\ result' = Raised(g.err)
               /\ grid' = grid
          ELSE /\ pc' = "eval"
               /\ grid' = g.grid
               /\ result' = result
    /\ UNCHANGED <<entry, alpha, grid_spec, inversion_spec, has_fn, test_fn,
                   pvals, evaluations>>

\* invert_test, lines 53-57: test_fn at every grid point.  The caller's
\* test_fn is opaque until it is called, so it is chosen here.
InvertTestEvaluate ==
    /\ pc = "eval"
    /\ \E f \in TestFns \cup HugeFns :
          /\ test_fn' = f
          /\ pvals' = [i \in 1..Len(grid) |-> EvalFn(f, grid[i])]
    /\ evaluations' = Len(grid)
    /\ pc' = "invert"
    /\ UNCHANGED <<entry, alpha, grid_spec, inversion_spec, has_fn, grid, result>>

\* invert_test, lines 59-78: the call of invert_pvalue_grid and the return.
InvertTestInvert ==
    /\ pc = "invert"
    /\ result' = invert_pvalue_grid(grid, pvals, alpha, inversion_spec.refine,
                                    inversion_spec.refine_tol,
                                    inversion_spec.max_refine_iter, TRUE, test_fn)
    /\ pc' = IF result'.err = "none" THEN "done" ELSE "raised"
    /\ UNCHANGED <<entry, alpha, grid_spec, inversion_spec, has_fn, test_fn,
                   grid, pvals, evaluations>>

\* A caller's own call of invert_pvalue_grid (lm.py, clr.py).
InvertPvalueGridCall ==
    /\ pc = "call" /\ entry = "invert_pvalue_grid"
    /\ result' = invert_pvalue_grid(grid, pvals, alpha, inversion_spec.refine,
                                    inversion_spec.refine_tol,
                                    inversion_spec.max_refine_iter, has_fn, test_fn)
    /\ pc' = IF result'.err = "none" THEN "done" ELSE "raised"
    /\ UNCHANGED <<entry, alpha, grid_spec, inversion_spec, has_fn, test_fn,
                   grid, pvals, evaluations>>

(***************************************************************************)
(* Specification of the inversion.                                         *)
(***************************************************************************)
IsIdle ==
    isOp = "idle" /\ isSelf = <<>> /\ isOther = <<>> /\ isX = 0 /\ isOut = <<>>
EpIdle == ep = <<>> /\ epOut = <<>>
DIdle == dPc = "idle" /\ dIn = <<>> /\ dOut = <<>>
CvIdle == cv = <<>> /\ cvOut = <<>>
TIdle == tq = <<>> /\ tOut = <<>>
RIdle == rq = <<>> /\ rOut = <<>>
SIdle == sq = <<>> /\ sOut = <<>>
XIdle == CvIdle /\ TIdle /\ RIdle /\ SIdle

Init ==
    /\ InitInvertTest \/ InitInvertDirect
    /\ IsIdle /\ EpIdle /\ DIdle /\ XIdle

Next ==
    \/ InvertTestValidate /\ UNCHANGED <<isVars, epVars, dVars, xVars>>
    \/ InvertTestEvaluate /\ UNCHANGED <<isVars, epVars, dVars, xVars>>
    \/ InvertTestInvert /\ UNCHANGED <<isVars, epVars, dVars, xVars>>
    \/ InvertPvalueGridCall /\ UNCHANGED <<isVars, epVars, dVars, xVars>>

Spec == Init /\ [][Next]_vars

(***************************************************************************)
(* Properties of the inversion.                                            *)
(***************************************************************************)
Returns == pc = "done"
Accepted(i) == pvals[i] # NaN /\ alpha # NaN /\ pvals[i] >= alpha
RunStarts == {i \in 1..Len(pvals) : Accepted(i) /\ (i = 1 \/ ~Accepted(i - 1))}
RunEnd(s) == CHOOSE e \in s..Len(pvals) :
                 /\ \A k \in s..e : Accepted(k)
                 /\ (e = Len(pvals) \/ ~Accepted(e + 1))
\* the first grid index of the j-th maximal run of accepted grid points
NthRun(j) == CHOOSE s \in RunStarts : Cardinality({t \in RunStarts : t < s}) = j - 1

\* C1: with refine=False the returned intervals are, in increasing order,
\* the maximal runs of consecutive grid points with p-value >= alpha, one
\* interval per run; a run touching neither end of the grid yields the
\* closed interval from its first to its last grid point, and a finite bound
\* of any other run is the run's grid point on that side.
C1_OneIntervalPerRun ==
    (Returns /\ ~inversion_spec.refine) =>
        /\ Len(result.intervals) = Cardinality(RunStarts)
        /\ \A j \in 1..Len(result.intervals) :
              LET s == NthRun(j)
                  e == RunEnd(s)
                  iv == result.intervals[j]
              IN /\ (s > 1 => iv[1] = grid[s])
                 /\ (e < Len(grid) => iv[2] = grid[e])
                 /\ iv[1] <= iv[2]
                 /\ (j > 1 => result.intervals[j - 1][2] < iv[1])

\* Two runs, the second one interior and accepted by equality p = alpha.
C1_Witness ==
    /\ Returns /\ ~inversion_spec.refine /\ entry = "invert_test"
    /\ Len(result.intervals) = 2
    /\ IsFinite(result.intervals[2][1]) /\ IsFinite(result.intervals[2][2])
    /\ \E i \in 1..Len(pvals) : result.intervals[2][1] = grid[i] /\ pvals[i] = alpha

\* C2: a returned interval has lower bound -inf exactly when its run
\* contains the first grid point and upper bound +inf exactly when its run
\* contains the last grid point; the p-value function is never called to
\* refine such a side, with refine on or off; if every grid point is
\* accepted the result is the single interval (-inf, +inf).
C2_UnboundedEnds ==
    Returns =>
        /\ \A j \in 1..Len(result.intervals) :
              LET s == NthRun(j)
                  e == RunEnd(s)
                  iv == result.intervals[j]
              IN /\ (iv[1] = NegInf) = (s = 1)
                 /\ (iv[2] = PosInf) = (e = Len(grid))
                 /\ (s = 1 => result.trace[j].callsL = <<>>)
                 /\ (e = Len(grid) => result.trace[j].callsR = <<>>)
        /\ ((Len(grid) > 0 /\ \A i \in 1..Len(pvals) : Accepted(i))
                => result.intervals = << <<NegInf, PosInf>> >>)

\* refine=True: first run unbounded on the left with a refined right end,
\* last run unbounded on the right with a refined left end.
C2_Witness ==
    /\ Returns /\ inversion_spec.refine
    /\ Len(result.intervals) = 2
    /\ result.intervals[1][1] = NegInf /\ result.intervals[2][2] = PosInf
    /\ result.trace[1].callsL = <<>> /\ Len(result.trace[1].callsR) > 2
    /\ Len(result.trace[2].callsL) > 2 /\ result.trace[2].callsR = <<>>

\* the grid passes the checks of invert_pvalue_grid
ValidGrid ==
    /\ Len(grid) = Len(pvals)
    /\ \A i \in 1..Len(grid) : grid[i] \notin {NaN, PosInf, NegInf}
    /\ \A i \in 1..(Len(grid) - 1) : grid[i] < grid[i + 1]

\* C6: when no grid point of a valid grid has a p-value >= alpha, the
\* inversion returns the empty IntervalSet and raises nothing, for every
\* alpha in (0, 1), with refine on or off (and also when refine is on and no
\* p-value function is given).
C6_NoneAcceptedIsEmpty ==
    (/\ pc \in {"done", "raised"}
     /\ 0 < alpha /\ alpha < AlphaOne
     /\ entry = "invert_test" => evaluations > 0
     /\ ValidGrid
     /\ \A i \in 1..Len(pvals) : ~Accepted(i))
        => /\ pc = "done"
           /\ result.err = "none"
           /\ IntervalSet_is_empty(result.intervals)

C6_Witness ==
    /\ Returns /\ inversion_spec.refine /\ ~has_fn
    /\ Len(grid) = MaxGrid /\ ValidGrid
    /\ \A i \in 1..Len(pvals) : ~Accepted(i)
    /\ result.intervals = <<>>

\* C7 as stated: invert_test returns only for a strictly increasing, finite
\* grid of at least 301 points, generated or explicit.
C7_AsStated ==
    (Returns /\ entry = "invert_test") =>
        /\ \A i \in 1..Len(grid) : grid[i] \notin {NaN, PosInf, NegInf}
        /\ \A i \in 1..(Len(grid) - 1) : grid[i] < grid[i + 1]
        /\ Len(grid) >= MinNGrid

\* C7 amended: invert_test returns only for a strictly increasing, finite
\* grid; a grid generated from beta_bounds has n_grid >= 301 points, an
\* explicit grid at least 3 points; every other call raises ValueError.
C7_GridChecked ==
    /\ (Returns /\ entry = "invert_test") =>
          /\ \A i \in 1..Len(grid) : grid[i] \notin {NaN, PosInf, NegInf}
          /\ \A i \in 1..(Len(grid) - 1) : grid[i] < grid[i + 1]
          /\ grid_spec.has_grid => (grid = grid_spec.grid /\ Len(grid) >= MinExplicitGrid)
          /\ ~grid_spec.has_grid => (Len(grid) = grid_spec.n_grid /\ Len(grid) >= MinNGrid)
    /\ (pc = "raised" /\ entry = "invert_test") => result.err = "ValueError"

\* An explicit grid of fewer than 301 points is inverted.
C7_Witness ==
    /\ Returns /\ entry = "invert_test" /\ grid_spec.has_grid
    /\ Len(grid) < MinNGrid
    /\ Len(result.intervals) > 0

(***************************************************************************)
(* IntervalSet operations on one interval set isSelf.                      *)
(***************************************************************************)
ISBounds == {NegInf, 0, 2, PosInf}
ISPoints == {-1, 0, 1, 2, 3}
ISPairs == {<<lo, hi>> : lo \in ISBounds, hi \in ISBounds}
ISValidPairs == {q \in ISPairs : q[1] <= q[2]}
ListsOf(S, n) == UNION {[1..k -> S] : k \in 0..n}

\* payloads from_dict rejects or reads as empty
ISOddPayloads == {[intervals |-> << <<0, 2, 2>> >>],
                  [intervals |-> << <<0, 2>>, <<0>> >>],
                  [other |-> <<>>]}

ISNoOut == [err |-> "none", intervals |-> <<>>, value |-> FALSE]

InitIS ==
    /\ isOp = "new"
    /\ isSelf \in ListsOf(ISPairs, MaxIntervals)
    /\ isOther = <<>> /\ isX = 0 /\ isOut = ISNoOut

\* self.union(other)
Union ==
    /\ isOp = "new"
    /\ \E other \in ListsOf(ISValidPairs, MaxOther) :
          /\ isOther' = other
          /\ isOut' = [ISNoOut EXCEPT !.intervals = IntervalSet_union(isSelf, other)]
    /\ isOp' = "union"
    /\ UNCHANGED <<isSelf, isX>>

\* self.contains(x)
Contains ==
    /\ isOp = "new"
    /\ \E x \in ISPoints \cup {NegInf, PosInf} :
          /\ isX' = x
          /\ isOut' = [ISNoOut EXCEPT !.value = IntervalSet_contains(isSelf, x)]
    /\ isOp' = "contains"
    /\ UNCHANGED <<isSelf, isOther>>

\* self.normalized()
Normalized ==
    /\ isOp = "new"
    /\ isOut' = [ISNoOut EXCEPT !.intervals = IntervalSet_normalized(isSelf)]
    /\ isOp' = "normalized"
    /\ UNCHANGED <<isSelf, isOther, isX>>

\* IntervalSet.from_dict(self.to_dict())
RoundTrip ==
    /\ isOp = "new"
    /\ LET r == IntervalSet_from_dict(IntervalSet_to_dict(isSelf))
       IN isOut' = [ISNoOut EXCEPT !.err = r.err, !.intervals = r.intervals]
    /\ isOp' = "round_trip"
    /\ UNCHANGED <<isSelf, isOther, isX>>

\* IntervalSet.from_dict(payload) on a payload that to_dict does not write
FromDict ==
    /\ isOp = "new" /\ isSelf = <<>>
    /\ \E payload \in ISOddPayloads :
          LET r == IntervalSet_from_dict(payload)
          IN isOut' = [ISNoOut EXCEPT !.err = r.err, !.intervals = r.intervals]
    /\ isOp' = "from_dict"
    /\ UNCHANGED <<isSelf, isOther, isX>>

InitISSpec == InitIS /\ InvIdle /\ EpIdle /\ DIdle /\ XIdle

NextIS ==
    \/ Union /\ UNCHANGED <<invVars, epVars, dVars, xVars>>
    \/ Contains /\ UNCHANGED <<invVars, epVars, dVars, xVars>>
    \/ Normalized /\ UNCHANGED <<invVars, epVars, dVars, xVars>>
    \/ RoundTrip /\ UNCHANGED <<invVars, epVars, dVars, xVars>>
    \/ FromDict /\ UNCHANGED <<invVars, epVars, dVars, xVars>>

SpecIS == InitISSpec /\ [][NextIS]_vars

(***************************************************************************)
(* Properties of IntervalSet.                                              *)
(***************************************************************************)
\* x lies in one of the closed intervals of S
Member(S, x) == \E i \in 1..Len(S) : S[i][1] <= x /\ x <= S[i][2]
WellFormed(S) == \A i \in 1..Len(S) : S[i][1] <= S[i][2]

\* C3: for interval sets whose intervals have lower <= upper, union returns
\* intervals sorted by lower bound, no two of them overlapping or touching,
\* and a real x lies in the result exactly when it lies in one of the inputs.
C3_UnionIsNormalizedUnion ==
    (isOp = "union" /\ WellFormed(isSelf) /\ WellFormed(isOther)) =>
        /\ \A i \in 1..(Len(isOut.intervals) - 1) :
              isOut.intervals[i][2] < isOut.intervals[i + 1][1]
        /\ \A x \in ISPoints :
              Member(isOut.intervals, x) = (Member(isSelf, x) \/ Member(isOther, x))

\* C4: for every list of pairs S and every x, S.contains(x) equals
\* S.normalized().contains(x).
C4_ContainsMatchesNormalized ==
    isOp = "contains" =>
        isOut.value = IntervalSet_contains(IntervalSet_normalized(isSelf), isX)

\* C5: from_dict(S.to_dict()) has exactly the intervals of S: same order,
\* same bounds, infinite bounds and the empty set included.
C5_RoundTrip ==
    isOp = "round_trip" => (isOut.err = "none" /\ isOut.intervals = isSelf)

\* An unsorted, overlapping list with both infinite bounds comes back as is.
C5_Witness ==
    /\ isOp = "round_trip"
    /\ isSelf = << <<0, PosInf>>, <<NegInf, 2>> >>
    /\ isOut.intervals = isSelf

(***************************************************************************)
(* IVData (data.py) and validate_iv_arrays (_validation.py).  An array is  *)
(* given by its shape, whether all its entries are finite, and its dtype.  *)
(***************************************************************************)
Arr(shape, finite, dtype) == [shape |-> shape, finite |-> finite, dtype |-> dtype]
NoArr == Arr(<<>>, TRUE, "none")

\* arr.size
Size(a) ==
    IF Len(a.shape) = 0 THEN 1
    ELSE IF Len(a.shape) = 1 THEN a.shape[1]
    ELSE IF Len(a.shape) = 2 THEN a.shape[1] * a.shape[2]
    ELSE a.shape[1] * a.shape[2] * a.shape[3]

\* Variant of _as_2d_float without the np.isfinite check.
as_2d_float_unchecked(x) ==
    LET arr == IF Len(x.shape) = 1
               THEN Arr(<<x.shape[1], 1>>, x.finite, "float64")
               ELSE Arr(x.shape, x.finite, "float64")
    IN IF Len(arr.shape) # 2 THEN [err |-> "ValueError", arr |-> NoArr]
       ELSE IF Size(arr) = 0 THEN [err |-> "ValueError", arr |-> NoArr]
       ELSE [err |-> "none", arr |-> arr]

as_2d_float(x) ==
    LET arr == IF Len(x.shape) = 1
               THEN Arr(<<x.shape[1], 1>>, x.finite, "float64")
               ELSE Arr(x.shape, x.finite, "float64")
    IN IF Len(arr.shape) # 2 THEN [err |-> "ValueError", arr |-> NoArr]
       ELSE IF Size(arr) = 0 THEN [err |-> "ValueError", arr |-> NoArr]
       ELSE IF ~arr.finite THEN [err |-> "ValueError", arr |-> NoArr]
       ELSE [err |-> "none", arr |-> arr]

as_1d_int(x) ==
    IF Len(x.shape) # 1 THEN [err |-> "ValueError", arr |-> NoArr]
    ELSE IF Size(x) = 0 THEN [err |-> "ValueError", arr |-> NoArr]
    ELSE IF ~x.finite THEN [err |-> "ValueError", arr |-> NoArr]
    ELSE [err |-> "none", arr |-> Arr(x.shape, x.finite, "int64")]

NoShapes == [n |-> 0, p_exog |-> 0, p_endog |-> 0, k_instr |-> 0]
Invalid == [err |-> "ValueError", y |-> NoArr, d |-> NoArr, x |-> NoArr, z |-> NoArr,
            clusters |-> NoArr, shapes |-> NoShapes]

validate_iv_arrays(y, d, x, z, clusters) ==
    LET y2 == as_2d_float(y)
        d2 == as_2d_float(d)
        x2 == as_2d_float(x)
        z2 == as_2d_float(z)
        n == y2.arr.shape[1]
        c1 == IF clusters = NoArr THEN [err |-> "none", arr |-> NoArr]
              ELSE as_1d_int(clusters)
    IN IF y2.err # "none" \/ d2.err # "none" \/ x2.err # "none" \/ z2.err # "none"
       THEN Invalid
       ELSE IF d2.arr.shape[1] # n \/ x2.arr.shape[1] # n \/ z2.arr.shape[1] # n
       THEN Invalid
       ELSE IF y2.arr.shape[2] # 1 THEN Invalid
       ELSE IF d2.arr.shape[2] < 1 THEN Invalid
       ELSE IF z2.arr.shape[2] < 1 THEN Invalid
       ELSE IF x2.arr.shape[2] < 1 THEN Invalid
       ELSE IF c1.err # "none" THEN Invalid
       ELSE IF clusters # NoArr /\ c1.arr.shape[1] # n THEN Invalid
       ELSE [err |-> "none", y |-> y2.arr, d |-> d2.arr, x |-> x2.arr, z |-> z2.arr,
             clusters |-> c1.arr,
             shapes |-> [n |-> n, p_exog |-> x2.arr.shape[2],
                         p_endog |-> d2.arr.shape[2], k_instr |-> z2.arr.shape[2]]]

\* The properties of an IVData instance.
nobs(data) == data.shapes.n
k_instr(data) == data.shapes.k_instr
p_endog(data) == data.shapes.p_endog
p_exog(data) == data.shapes.p_exog

\* Arrays passed to IVData: vectors, two-column matrices and a 1 x 1 matrix,
\* and arrays with one defect each.
GoodArrays ==
    {Arr(<<n>>, TRUE, "float64") : n \in 1..MaxDim}
    \cup {Arr(<<n, 2>>, TRUE, "float64") : n \in 1..MaxDim}
    \cup {Arr(<<1, 1>>, TRUE, "int64")}
BadArrays ==
    {Arr(<<>>, TRUE, "float64"), Arr(<<1, 1, 1>>, TRUE, "float64"),
     Arr(<<0>>, TRUE, "float64"), Arr(<<0, 1>>, TRUE, "float64"),
     Arr(<<1, 0>>, TRUE, "float64"), Arr(<<1>>, FALSE, "float64")}
ClusterArrays ==
    {NoArr}
    \cup {Arr(<<n>>, TRUE, "float64") : n \in 1..MaxDim}
    \cup {Arr(<<0>>, TRUE, "int64"), Arr(<<>>, TRUE, "int64"),
          Arr(<<1, 1>>, TRUE, "int64"), Arr(<<1>>, FALSE, "float64")}

InitData == dPc = "new" /\ dIn = <<>> /\ dOut = <<>>

\* IVData(y=..., d=..., x=..., z=..., clusters=...): __post_init__
IVData_post_init ==
    /\ dPc = "new"
    /\ \E y \in GoodArrays \cup BadArrays, d \in GoodArrays \cup BadArrays,
          x \in GoodArrays \cup BadArrays, z \in GoodArrays \cup BadArrays,
          clusters \in ClusterArrays :
          /\ dIn' = [y |-> y, d |-> d, x |-> x, z |-> z, clusters |-> clusters]
          /\ dOut' = validate_iv_arrays(y, d, x, z, clusters)
    /\ dPc' = IF dOut'.err = "none" THEN "done" ELSE "raised"

InitDataSpec == InitData /\ InvIdle /\ IsIdle /\ EpIdle /\ XIdle

NextData == IVData_post_init /\ UNCHANGED <<invVars, isVars, epVars, xVars>>

SpecData == InitDataSpec /\ [][NextData]_vars

(***************************************************************************)
(* Properties of IVData.                                                   *)
(***************************************************************************)
InRows(a) == a.shape[1]
InCols(a) == IF Len(a.shape) = 1 THEN 1 ELSE a.shape[2]
Usable(a) ==
    /\ Len(a.shape) \in {1, 2}
    /\ \A i \in 1..Len(a.shape) : a.shape[i] >= 1
    /\ a.finite
Acceptable(in) ==
    /\ Usable(in.y) /\ Usable(in.d) /\ Usable(in.x) /\ Usable(in.z)
    /\ InRows(in.d) = InRows(in.y) /\ InRows(in.x) = InRows(in.y)
    /\ InRows(in.z) = InRows(in.y)
    /\ InCols(in.y) = 1
    /\ in.clusters.dtype # "none" =>
          (in.clusters.shape = <<InRows(in.y)>> /\ in.clusters.finite)

\* C10: IVData(y, d, x, z, clusters) either raises ValueError or yields an
\* instance with y n x 1, d n x p_endog, x n x p_exog, z n x k_instr for one
\* n >= 1 and p_endog, p_exog, k_instr >= 1, all entries finite, clusters
\* (when given) an integer vector of length n, and shapes/nobs/p_endog/
\* p_exog/k_instr reporting these dimensions; a one-dimensional input is
\* one column; mismatched rows, a y of several columns, empty arrays,
\* non-finite entries and clusters of wrong length or dimension are rejected.
C10_ValidatedOrRejected ==
    dPc \in {"done", "raised"} =>
        /\ (dPc = "raised") = (dOut.err = "ValueError")
        /\ (dPc = "done") = (dOut.err = "none")
        /\ (dPc = "done") = Acceptable(dIn)
        /\ dPc = "done" =>
              LET n == InRows(dIn.y)
              IN /\ n >= 1 /\ nobs(dOut) = n /\ dOut.shapes.n = n
                 /\ dOut.y.shape = <<n, 1>>
                 /\ dOut.d.shape = <<n, p_endog(dOut)>>
                 /\ dOut.x.shape = <<n, p_exog(dOut)>>
                 /\ dOut.z.shape = <<n, k_instr(dOut)>>
                 /\ p_endog(dOut) = InCols(dIn.d) /\ p_endog(dOut) >= 1
                 /\ p_exog(dOut) = InCols(dIn.x) /\ p_exog(dOut) >= 1
                 /\ k_instr(dOut) = InCols(dIn.z) /\ k_instr(dOut) >= 1
                 /\ dOut.y.finite /\ dOut.d.finite /\ dOut.x.finite /\ dOut.z.finite
                 /\ (dIn.clusters.dtype = "none") = (dOut.clusters = NoArr)
                 /\ dIn.clusters.dtype # "none" =>
                       (dOut.clusters = Arr(<<n>>, TRUE, "int64"))

\* Vectors y and z become single columns next to a two-column d, with
\* clusters of length n.
C10_Witness ==
    /\ dPc = "done"
    /\ dIn.y.shape = <<2>> /\ dIn.z.shape = <<2>> /\ dIn.d.shape = <<2, 2>>
    /\ dIn.clusters.shape = <<2>>
    /\ dOut.y.shape = <<2, 1>> /\ dOut.z.shape = <<2, 1>> /\ p_endog(dOut) = 2

(***************************************************************************)
(* IVData.from_arrays (data/ivdata.py).  The rows of a dataset are given   *)
(* by the one array, if any, in which each row has a non-finite entry; y,  *)
(* X_endog, Z and the optional X_exog, weights, clusters and time have the *)
(* same number of rows.  An array of the result is the sequence of the     *)
(* original row numbers it holds.                                          *)
(***************************************************************************)
MaxArrayRows == MaxDim + 1

RowDefects == {"none", "y", "X_endog", "Z", "X_exog", "weights", "time"}

\* np.all(np.isfinite(arr)) for the array called name, holding rows idx.
RowsFinite(rows, idx, name) == \A j \in 1..Len(idx) : rows[idx[j]] # name

RowNumbers(n) == [i \in 1..n |-> i]

FromError(err) ==
    [err |-> err, y |-> <<>>, x_endog |-> <<>>, x_exog |-> <<>>, z |-> <<>>,
     weights |-> <<>>, clusters |-> <<>>, time |-> <<>>, n |-> 0,
     metadata |-> {}, warnings |-> {}]

\* IVData.__post_init__ of data/ivdata.py on arrays holding the rows idx.
ivdata_post_init(in, idx, x_exog, meta) ==
    IF Len(idx) = 0 THEN FromError("ValueError")
    ELSE IF ~RowsFinite(in.rows, idx, "y") THEN FromError("ValueError")
    ELSE IF ~RowsFinite(in.rows, idx, "X_endog") THEN FromError("ValueError")
    ELSE IF x_exog \notin {"None", "intercept"} /\ ~RowsFinite(in.rows, idx, "X_exog")
    THEN FromError("ValueError")
    ELSE IF ~RowsFinite(in.rows, idx, "Z") THEN FromError("ValueError")
    ELSE IF in.weights /\ ~RowsFinite(in.rows, idx, "weights")
    THEN FromError("ValueError")
    ELSE [err |-> "none", y |-> idx, x_endog |-> idx,
          x_exog |-> IF x_exog = "None" THEN <<>> ELSE idx, z |-> idx,
          weights |-> IF in.weights THEN idx ELSE <<>>,
          clusters |-> IF in.clusters THEN idx ELSE <<>>,
          time |-> IF in.time THEN idx ELSE <<>>,
          n |-> Len(idx), metadata |-> meta,
          warnings |-> IF x_exog = "deficient" THEN {"rank deficient"} ELSE {}]

\* x_exog_arr after the add_intercept step (lines 144-159).
WithIntercept(in) ==
    IF ~in.add_intercept THEN in.X_exog
    ELSE IF in.X_exog = "None" THEN "intercept"
    ELSE in.X_exog

\* Variant of FromMask that leaves Z out of the mask.
FromMaskWithoutZ(in) ==
    [i \in 1..Len(in.rows) |->
        /\ in.rows[i] # "y"
        /\ in.rows[i] # "X_endog"
        /\ (in.X_exog # "None" => in.rows[i] # "X_exog")
        /\ (in.weights => in.rows[i] # "weights")
        /\ (in.time => in.rows[i] # "time")]

\* The mask of rows to keep (lines 164-174).
FromMask(in) ==
    [i \in 1..Len(in.rows) |->
        /\ in.rows[i] # "y"
        /\ in.rows[i] # "X_endog"
        /\ in.rows[i] # "Z"
        /\ (in.X_exog # "None" => in.rows[i] # "X_exog")
        /\ (in.weights => in.rows[i] # "weights")
        /\ (in.time => in.rows[i] # "time")]

\* arr[mask]
Masked(idx, mask) == SelectSeq(idx, LAMBDA i : mask[i])

FromDropped(in, mask, meta) ==
    LET all == RowNumbers(Len(in.rows))
        dropped == Cardinality({i \in 1..Len(in.rows) : ~mask[i]})
    IN IF dropped > 0
       THEN ivdata_post_init(in, Masked(all, mask), WithIntercept(in),
                             meta \cup {<<"dropped_rows", dropped>>,
                                        <<"missing_policy", "listwise">>})
       ELSE ivdata_post_init(in, all, WithIntercept(in), meta)

IVData_from_arrays(in) ==
    LET all == RowNumbers(Len(in.rows))
    IN IF Len(in.rows) = 0 THEN FromError("ValueError")
       ELSE IF in.drop_missing THEN FromDropped(in, FromMask(in), {})
       ELSE IF ~RowsFinite(in.rows, all, "y") THEN FromError("ValueError")
       ELSE IF ~RowsFinite(in.rows, all, "X_endog") THEN FromError("ValueError")
       ELSE IF ~RowsFinite(in.rows, all, "Z") THEN FromError("ValueError")
       ELSE IF in.X_exog # "None" /\ ~RowsFinite(in.rows, all, "X_exog")
       THEN FromError("ValueError")
       ELSE ivdata_post_init(in, all, WithIntercept(in), {})

\* Datasets of up to MaxArrayRows rows, the empty one included.
RowSeqs == UNION {[1..n -> RowDefects] : n \in 0..MaxArrayRows}

\* X_exog: absent, of full rank without a constant, with a constant column,
\* or rank deficient.
ExogKinds == {"None", "full", "const", "deficient"}

Run_from_arrays ==
    /\ dPc = "new"
    /\ \E rows \in RowSeqs, xx \in ExogKinds, w \in BOOLEAN, c \in BOOLEAN,
          t \in BOOLEAN, dm \in BOOLEAN, ai \in BOOLEAN :
          /\ dIn' = [fn |-> "from_arrays", rows |-> rows, X_exog |-> xx,
                     weights |-> w, clusters |-> c, time |-> t,
                     drop_missing |-> dm, add_intercept |-> ai]
          /\ dOut' = IVData_from_arrays(dIn')
    /\ dPc' = IF dOut'.err = "none" THEN "done" ELSE "raised"

NextFrom == Run_from_arrays /\ UNCHANGED <<invVars, isVars, epVars, xVars>>

SpecFrom == InitDataSpec /\ [][NextFrom]_vars

(***************************************************************************)
(* Entry points.  A call is made on a validated IVData, of which only the  *)
(* shapes matter here; its outcome is the exception raised ("none" for a   *)
(* returned result), whether the test was evaluated at some beta, and      *)
(* whether anything was computed from the data before the outcome.         *)
(***************************************************************************)
Outcome(err, evaluated, computed) ==
    [err |-> err, evaluated |-> evaluated, computed |-> computed]

BoundsInvalid(gs) == ~IsFinite(gs.lo) \/ ~IsFinite(gs.hi) \/ gs.lo >= gs.hi

\* The checks of invert_pvalue_grid on the grid a confidence set evaluated.
GridOutcome(g) ==
    IF Len(g) > 0 /\ (~GridFinite(g) \/ ~GridIncreasing(g))
    THEN Outcome("ValueError", TRUE, TRUE)
    ELSE Outcome("none", TRUE, TRUE)

\* ar.py
ar_test(data) ==
    IF p_endog(data) # 1 THEN Outcome("NotImplementedError", FALSE, FALSE)
    ELSE Outcome("none", TRUE, TRUE)

ar_confidence_set(data, a, gs) ==
    IF ~AlphaValid(a) THEN Outcome("ValueError", FALSE, FALSE)
    ELSE IF gs.n_grid < MinNGrid THEN Outcome("ValueError", FALSE, FALSE)
    ELSE IF p_endog(data) # 1 THEN Outcome("NotImplementedError", FALSE, FALSE)
    ELSE IF gs.has_bounds /\ BoundsInvalid(gs) THEN Outcome("ValueError", FALSE, FALSE)
    ELSE Outcome("none", TRUE, TRUE)

\* lm.py
lm_test(data) ==
    IF p_endog(data) # 1 THEN Outcome("NotImplementedError", FALSE, FALSE)
    ELSE Outcome("none", TRUE, TRUE)

lm_confidence_set(data, a, gs) ==
    IF ~AlphaValid(a) THEN Outcome("ValueError", FALSE, FALSE)
    ELSE IF ~gs.has_grid /\ gs.n_grid < MinNGrid THEN Outcome("ValueError", FALSE, FALSE)
    ELSE IF p_endog(data) # 1 THEN Outcome("NotImplementedError", FALSE, FALSE)
    ELSE IF ~gs.has_grid
    THEN IF gs.has_bounds /\ BoundsInvalid(gs)
         THEN Outcome("ValueError", FALSE, FALSE)
         ELSE Outcome("none", TRUE, TRUE)
    ELSE IF Len(gs.grid) < MinExplicitGrid THEN Outcome("ValueError", FALSE, FALSE)
         ELSE GridOutcome(gs.grid)

\* clr.py
clr_test(data) ==
    IF p_endog(data) # 1 THEN Outcome("NotImplementedError", FALSE, FALSE)
    ELSE Outcome("none", TRUE, TRUE)

clr_confidence_set(data, a, gs) ==
    IF ~AlphaValid(a) THEN Outcome("ValueError", FALSE, FALSE)
    ELSE IF ~gs.has_grid /\ gs.n_grid < MinNGrid THEN Outcome("ValueError", FALSE, FALSE)
    ELSE IF p_endog(data) # 1 THEN Outcome("NotImplementedError", FALSE, FALSE)
    ELSE IF ~gs.has_grid
    THEN IF gs.has_bounds /\ BoundsInvalid(gs)
         THEN Outcome("ValueError", FALSE, FALSE)
         ELSE Outcome("none", TRUE, TRUE)
    ELSE IF Len(gs.grid) < MinExplicitGrid THEN Outcome("ValueError", FALSE, FALSE)
         ELSE GridOutcome(gs.grid)

\* invert_test as the confidence sets of weakiv/ call it: beta_bounds
\* default to bounds computed from the data when grid and bounds are None.
InvertTestOutcome(a, gs) ==
    LET spec == IF ~gs.has_grid /\ ~gs.has_bounds
                THEN [gs EXCEPT !.has_bounds = TRUE, !.lo = -GridUnit, !.hi = GridUnit]
                ELSE gs
        g == InvertTestGrid(a, spec)
    IN IF g.err # "none" THEN Outcome("ValueError", FALSE, ~gs.has_grid /\ ~gs.has_bounds)
       ELSE GridOutcome(g.grid)

\* weakiv/lm.py
weakiv_lm_confidence_set(data, a, gs) ==
    IF p_endog(data) # 1 THEN Outcome("NotImplementedError", FALSE, FALSE)
    ELSE InvertTestOutcome(a, gs)

\* weakiv/clr.py
weakiv_clr_confidence_set(data, a, gs) ==
    IF p_endog(data) # 1 THEN Outcome("NotImplementedError", FALSE, FALSE)
    ELSE InvertTestOutcome(a, gs)

\* weakiv/ar.py: alpha only enters through crit = chi2.ppf(1 - alpha); the
\* statistic is evaluated on the whole grid; accept[0] on an empty grid.
weakiv_ar_confidence_set(data, a, gs) ==
    IF p_endog(data) # 1 THEN Outcome("NotImplementedError", FALSE, FALSE)
    ELSE IF gs.has_grid /\ Len(gs.grid) = 0 THEN Outcome("IndexError", FALSE, TRUE)
    ELSE Outcome("none", TRUE, TRUE)

\* invert_test called directly
invert_test(a, gs) ==
    LET g == InvertTestGrid(a, gs)
    IN IF g.err # "none" THEN Outcome("ValueError", FALSE, FALSE)
       ELSE GridOutcome(g.grid)

\* diagnostics.py
first_stage_diagnostics(data) ==
    IF p_endog(data) # 1 THEN Outcome("NotImplementedError", FALSE, FALSE)
    ELSE IF nobs(data) - (p_exog(data) + k_instr(data)) <= 0
         THEN Outcome("ValueError", FALSE, TRUE)
         ELSE Outcome("none", FALSE, TRUE)

effective_f(data) ==
    IF p_endog(data) # 1 THEN Outcome("NotImplementedError", FALSE, FALSE)
    ELSE Outcome("none", FALSE, TRUE)

\* estimators.py: X = [x, d]; df_resid = n - X.shape[1]
kclass(data) ==
    IF nobs(data) - (p_exog(data) + p_endog(data)) <= 0
    THEN Outcome("ValueError", FALSE, TRUE)
    ELSE Outcome("none", FALSE, TRUE)

tsls(data) ==
    IF nobs(data) - (p_exog(data) + p_endog(data)) <= 0
    THEN Outcome("ValueError", FALSE, TRUE)
    ELSE Outcome("none", FALSE, TRUE)

liml(data) == kclass(data)

fuller(data) ==
    IF nobs(data) - (p_exog(data) + k_instr(data)) <= 0
    THEN Outcome("ValueError", FALSE, TRUE)
    ELSE kclass(data)

(***************************************************************************)
(* Calls of the entry points.                                              *)
(***************************************************************************)
Datasets ==
    {[shapes |-> [n |-> n, p_exog |-> 1, p_endog |-> p, k_instr |-> 1]] :
        n \in 1..MaxRows, p \in 1..MaxEndog}

NoOutcome == Outcome("pending", FALSE, FALSE)

InitEntry ==
    /\ \E data \in Datasets :
          ep = [fn |-> "none", data |-> data, alpha |-> 0, grid_spec |-> Explicit(<<>>)]
    /\ epOut = NoOutcome

\* a call fn(data)
Call(fn, out) ==
    /\ ep.fn = "none"
    /\ ep' = [ep EXCEPT !.fn = fn]
    /\ epOut' = out

\* a call fn(data, alpha=a, <grid arguments gs>)
CallWith(fn, a, gs, out) ==
    /\ ep.fn = "none"
    /\ ep' = [ep EXCEPT !.fn = fn, !.alpha = a, !.grid_spec = gs]
    /\ epOut' = out

\* ar.py takes beta_bounds and n_grid; weakiv/ar.py takes grid only.
BoundsSpecs == {gs \in GridSpecs : ~gs.has_grid}
GridOnlySpecs == {gs \in GridSpecs : ~gs.has_bounds}

Call_ar_test == Call("ar_test", ar_test(ep.data))
Call_lm_test == Call("lm_test", lm_test(ep.data))
Call_clr_test == Call("clr_test", clr_test(ep.data))
Call_first_stage_diagnostics ==
    Call("first_stage_diagnostics", first_stage_diagnostics(ep.data))
Call_effective_f == Call("effective_f", effective_f(ep.data))
Call_tsls == Call("tsls", tsls(ep.data))
Call_liml == Call("liml", liml(ep.data))
Call_fuller == Call("fuller", fuller(ep.data))
Call_kclass == Call("kclass", kclass(ep.data))
Call_ar_confidence_set ==
    \E a \in Alphas, gs \in BoundsSpecs :
        CallWith("ar_confidence_set", a, gs, ar_confidence_set(ep.data, a, gs))
Call_lm_confidence_set ==
    \E a \in Alphas, gs \in GridSpecs :
        CallWith("lm_confidence_set", a, gs, lm_confidence_set(ep.data, a, gs))
Call_clr_confidence_set ==
    \E a \in Alphas, gs \in GridSpecs :
        CallWith("clr_confidence_set", a, gs, clr_confidence_set(ep.data, a, gs))
Call_weakiv_ar_confidence_set ==
    \E a \in Alphas, gs \in GridOnlySpecs :
        CallWith("weakiv.ar_confidence_set", a, gs,
                 weakiv_ar_confidence_set(ep.data, a, gs))
Call_weakiv_lm_confidence_set ==
    \E a \in Alphas, gs \in GridSpecs :
        CallWith("weakiv.lm_confidence_set", a, gs,
                 weakiv_lm_confidence_set(ep.data, a, gs))
Call_weakiv_clr_confidence_set ==
    \E a \in Alphas, gs \in GridSpecs :
        CallWith("weakiv.clr_confidence_set", a, gs,
                 weakiv_clr_confidence_set(ep.data, a, gs))
Call_invert_test ==
    \E a \in Alphas, gs \in GridSpecs :
        CallWith("invert_test", a, gs, invert_test(a, gs))

InitEntrySpec == InitEntry /\ InvIdle /\ IsIdle /\ DIdle /\ XIdle

NextEntry ==
    \/ Call_ar_test /\ UNCHANGED <<invVars, isVars, dVars, xVars>>
    \/ Call_lm_test /\ UNCHANGED <<invVars, isVars, dVars, xVars>>
    \/ Call_clr_test /\ UNCHANGED <<invVars, isVars, dVars, xVars>>
    \/ Call_first_stage_diagnostics /\ UNCHANGED <<invVars, isVars, dVars, xVars>>
    \/ Call_effective_f /\ UNCHANGED <<invVars, isVars, dVars, xVars>>
    \/ Call_tsls /\ UNCHANGED <<invVars, isVars, dVars, xVars>>
    \/ Call_liml /\ UNCHANGED <<invVars, isVars, dVars, xVars>>
    \/ Call_fuller /\ UNCHANGED <<invVars, isVars, dVars, xVars>>
    \/ Call_kclass /\ UNCHANGED <<invVars, isVars, dVars, xVars>>
    \/ Call_ar_confidence_set /\ UNCHANGED <<invVars, isVars, dVars, xVars>>
    \/ Call_lm_confidence_set /\ UNCHANGED <<invVars, isVars, dVars, xVars>>
    \/ Call_clr_confidence_set /\ UNCHANGED <<invVars, isVars, dVars, xVars>>
    \/ Call_weakiv_ar_confidence_set /\ UNCHANGED <<invVars, isVars, dVars, xVars>>
    \/ Call_weakiv_lm_confidence_set /\ UNCHANGED <<invVars, isVars, dVars, xVars>>
    \/ Call_weakiv_clr_confidence_set /\ UNCHANGED <<invVars, isVars, dVars, xVars>>
    \/ Call_invert_test /\ UNCHANGED <<invVars, isVars, dVars, xVars>>

SpecEntry == InitEntrySpec /\ [][NextEntry]_vars

(***************************************************************************)
(* Properties of the entry points.                                         *)
(***************************************************************************)
ConfidenceSetRoutines ==
    {"invert_test", "ar_confidence_set", "lm_confidence_set", "clr_confidence_set",
     "weakiv.ar_confidence_set", "weakiv.lm_confidence_set", "weakiv.clr_confidence_set"}
EntryPoints ==
    (ConfidenceSetRoutines \ {"invert_test"})
    \cup {"ar_test", "lm_test", "clr_test", "first_stage_diagnostics", "effective_f",
          "tsls", "liml", "fuller", "kclass"}

AlphaOutside == ~(ep.alpha # NaN /\ 0 < ep.alpha /\ ep.alpha < AlphaOne)
\* beta_bounds that the call uses (no explicit grid) and that are not
\* finite with lo < hi
BoundsOutside ==
    /\ ~ep.grid_spec.has_grid /\ ep.grid_spec.has_bounds
    /\ \/ ep.grid_spec.lo \in {NaN, PosInf, NegInf}
       \/ ep.grid_spec.hi \in {NaN, PosInf, NegInf}
       \/ ep.grid_spec.lo >= ep.grid_spec.hi

\* C8: every confidence-set routine, called on data with one endogenous
\* regressor and an alpha outside (0, 1) or beta_bounds that are non-finite
\* or have lo >= hi, raises ValueError before the test is evaluated at any
\* beta.
C8_InvalidConfigurationRejected ==
    (/\ ep.fn \in ConfidenceSetRoutines
     /\ ep.data.shapes.p_endog = 1
     /\ AlphaOutside \/ BoundsOutside)
        => (epOut.err = "ValueError" /\ ~epOut.evaluated)

\* the grid arguments of the call are ones a call with p_endog = 1 accepts
ConfigurationValid ==
    ep.fn \in ConfidenceSetRoutines =>
        /\ ~AlphaOutside
        /\ ep.grid_spec \in {Explicit(Positions),
                              Generated(0, (MinNGrid - 1) * GridUnit, MinNGrid)}

\* C9: every estimation and inference entry point, called on data with
\* p_endog # 1 (and otherwise valid arguments), raises NotImplementedError
\* before any other check or computation on the data: never a ValueError
\* about the sample size, never a result.
C9_MultipleEndogRejectedFirst ==
    (/\ ep.fn \in EntryPoints
     /\ ep.data.shapes.p_endog # 1
     /\ ConfigurationValid)
        => (epOut.err = "NotImplementedError" /\ ~epOut.computed)

(***************************************************************************)
(* Covariance engine (covariance.py).  A Python string is the sequence of  *)
(* its characters; None is the value None.                                 *)
(***************************************************************************)
None == [tag |-> "None"]
IsNone(x) == x.tag = "None"
Str(s) == [tag |-> "str", s |-> s]

UpperLetters ==
    <<"A", "B", "C", "D", "E", "F", "G", "H", "I", "J", "K", "L", "M",
      "N", "O", "P", "Q", "R", "S", "T", "U", "V", "W", "X", "Y", "Z">>
LowerLetters ==
    <<"a", "b", "c", "d", "e", "f", "g", "h", "i", "j", "k", "l", "m",
      "n", "o", "p", "q", "r", "s", "t", "u", "v", "w", "x", "y", "z">>

\* str.lower() and str.upper(), character by character
LowerChar(c) ==
    IF \E i \in DOMAIN UpperLetters : UpperLetters[i] = c
    THEN LowerLetters[CHOOSE i \in DOMAIN UpperLetters : UpperLetters[i] = c]
    ELSE c
UpperChar(c) ==
    IF \E i \in DOMAIN LowerLetters : LowerLetters[i] = c
    THEN UpperLetters[CHOOSE i \in DOMAIN LowerLetters : LowerLetters[i] = c]
    ELSE c
StrLower(s) == [i \in DOMAIN s |-> LowerChar(s[i])]
StrUpper(s) == [i \in DOMAIN s |-> UpperChar(s[i])]

\* str.strip(): the characters between the first and the last one that is
\* not white space
StrStrip(s) ==
    LET solid == {i \in DOMAIN s : s[i] # " "}
    IN IF solid = {} THEN <<>> ELSE SubSeq(s, SetMin(solid), SetMax(solid))

s_unadjusted == <<"u", "n", "a", "d", "j", "u", "s", "t", "e", "d">>
s_homoskedastic ==
    <<"h", "o", "m", "o", "s", "k", "e", "d", "a", "s", "t", "i", "c">>
s_classical == <<"c", "l", "a", "s", "s", "i", "c", "a", "l">>
s_ols == <<"o", "l", "s">>
s_hc0 == <<"h", "c", "0">>
s_hc1 == <<"h", "c", "1">>
s_hc2 == <<"h", "c", "2">>
s_hc3 == <<"h", "c", "3">>
s_cluster == <<"c", "l", "u", "s", "t", "e", "r">>
s_hac == <<"h", "a", "c">>
s_bad == <<"b", "a", "d">>
s_HC0 == StrUpper(s_hc0)
s_HC1 == StrUpper(s_hc1)
s_HC2 == StrUpper(s_hc2)
s_HC3 == StrUpper(s_hc3)
s_HAC == StrUpper(s_hac)

ValueError(msg) == [err |-> "ValueError", msg |-> msg]
Ok(v) == [err |-> "none", value |-> v]

\* _normalize_cov_type(cov_type)
normalize_cov_type(cov_type) ==
    LET ct == StrLower(StrStrip(cov_type))
    IN IF ct \in {s_homoskedastic, s_unadjusted, s_ols} THEN Ok(s_unadjusted)
       ELSE IF ct \in {s_hc0, s_hc1, s_hc2, s_hc3} THEN Ok(StrUpper(ct))
       ELSE IF ct = s_cluster THEN Ok(s_cluster)
       ELSE IF ct = s_hac THEN Ok(s_HAC)
       ELSE ValueError("Unknown cov_type")

(***************************************************************************)
(* Cluster labels (data/clusters.py).  A label array is given by its       *)
(* number of dimensions and its entries in row order; a float label v is   *)
(* the integer v * LabelUnit, so that halves are exact.                    *)
(***************************************************************************)
LabelUnit == 1 + 1
Labels(ndim, values) == [tag |-> "array", ndim |-> ndim, values |-> values]

\* astype(np.int64) of a finite float: truncation toward zero
AsInt64(v) == IF v >= 0 THEN v \div LabelUnit ELSE -((-v) \div LabelUnit)

\* np.unique(c, return_inverse=True): the sorted distinct values and, for
\* every entry, the position of its value among them
Range(f) == {f[i] : i \in DOMAIN f}
UniqueInverse(c) ==
    [i \in DOMAIN c |-> Cardinality({u \in Range(c) : u < c[i]})]
UniqueSize(c) == Cardinality(Range(c))

\* _as_1d_int(x)
clusters_as_1d_int(x) ==
    IF x.ndim # 1 THEN ValueError("clusters must be a 1D array.")
    ELSE IF Len(x.values) = 0 THEN ValueError("clusters must be non-empty.")
    ELSE IF \E i \in DOMAIN x.values : ~IsFinite(x.values[i])
         THEN ValueError("clusters contain NaN or inf.")
    ELSE Ok([i \in DOMAIN x.values |-> AsInt64(x.values[i])])

ClusterSpec(codes, n_clusters, n) ==
    [tag |-> "ClusterSpec", codes |-> codes, n_clusters |-> n_clusters, nobs |-> n]

\* normalize_clusters(clusters, nobs=nobs); clusters is one array or a list
\* of arrays (multiway clustering)
NormalizeWays(arrays, n) ==
    LET ints == [w \in DOMAIN arrays |-> clusters_as_1d_int(arrays[w])]
        bad == {w \in DOMAIN arrays :
                   \/ ints[w].err # "none"
                   \/ Len(ints[w].value) # n}
    IN IF bad # {}
       THEN LET w == SetMin(bad)
            IN IF ints[w].err # "none" THEN ints[w]
               ELSE ValueError("clusters must have length n")
       ELSE Ok(ClusterSpec([w \in DOMAIN arrays |-> UniqueInverse(ints[w].value)],
                           [w \in DOMAIN arrays |-> UniqueSize(ints[w].value)],
                           n))

normalize_clusters(clusters, n) ==
    IF clusters.tag = "list" THEN NormalizeWays(clusters.arrays, n)
    ELSE NormalizeWays(<<clusters>>, n)

\* combine_clusters(spec): the rows of the stacked codes, numbered in
\* lexicographic order
RowLess(r, q) ==
    \E j \in DOMAIN r :
        /\ r[j] < q[j]
        /\ \A m \in 1..(j - 1) : r[m] = q[m]
combine_clusters(spec) ==
    LET rows == [i \in 1..spec.nobs |-> [w \in DOMAIN spec.codes |-> spec.codes[w][i]]]
    IN [i \in 1..spec.nobs |->
           Cardinality({q \in Range(rows) : RowLess(q, rows[i])})]

\* _cluster_codes(spec)
cluster_codes(spec) ==
    IF Len(spec.codes) > 1 THEN combine_clusters(spec) ELSE spec.codes[1]

(***************************************************************************)
(* CovSpec and parse_cov_spec.  The cov argument is None, a string, a      *)
(* CovSpec or a mapping; of a mapping only the key cov_type is modelled,   *)
(* the other keys are absent.                                              *)
(***************************************************************************)
CovSpec(cov_type, clusters, small_sample) ==
    [tag |-> "CovSpec", cov_type |-> cov_type, clusters |-> clusters,
     small_sample |-> small_sample]
Mapping(has_cov_type, cov_type) ==
    [tag |-> "Mapping", has_cov_type |-> has_cov_type, cov_type |-> cov_type]

parse_cov_spec(cov, cov_type, clusters, n, small_sample) ==
    LET ct_arg == IF ~IsNone(cov) /\ ~IsNone(cov_type) THEN None ELSE cov_type
        \* cov_type or "HC1"
        dflt == IF IsNone(ct_arg) THEN s_HC1
                ELSE IF ct_arg.s = <<>> THEN s_HC1 ELSE ct_arg.s
        kind == CASE cov.tag = "CovSpec" -> Ok(cov.cov_type)
                  [] cov.tag = "str" -> normalize_cov_type(cov.s)
                  [] cov.tag = "Mapping" ->
                       normalize_cov_type(IF cov.has_cov_type THEN cov.cov_type
                                          ELSE dflt)
                  [] OTHER -> normalize_cov_type(dflt)
        spec_clusters == IF cov.tag = "CovSpec" THEN cov.clusters ELSE None
        clusters_use == IF IsNone(spec_clusters) THEN clusters ELSE spec_clusters
    IN IF kind.err # "none" THEN kind
       ELSE IF kind.value # s_cluster
            THEN Ok(CovSpec(kind.value, None, small_sample))
       ELSE IF IsNone(clusters_use)
            THEN ValueError("clusters must be provided when cov_type='cluster'.")
       ELSE IF clusters_use.tag = "ClusterSpec"
            THEN Ok(CovSpec(kind.value, clusters_use, small_sample))
       ELSE LET nc == normalize_clusters(clusters_use, n)
            IN IF nc.err # "none" THEN nc
               ELSE Ok(CovSpec(kind.value, nc.value, small_sample))

CLUSTER_WARN_THRESHOLD == 10

\* _cluster_warnings(clusters, k=k)
cluster_warnings(g, k) ==
    LET G == UniqueSize(g)
        counts == {Cardinality({i \in DOMAIN g : g[i] = u}) : u \in Range(g)}
    IN (IF CLUSTER_WARN_THRESHOLD > G THEN {"few clusters"} ELSE {})
       \cup (IF 1 \in counts THEN {"clusters with size 1 detected"} ELSE {})
       \cup (IF k >= G THEN {"cluster covariance may be rank-deficient"} ELSE {})

\* the warning of np.linalg.matrix_rank(cov) < p
RankWarning(full_rank) ==
    IF full_rank THEN {} ELSE {"cluster covariance is not full rank"}

(***************************************************************************)
(* A covariance result: which meat was computed, how the matrix was        *)
(* scaled and by which degrees of freedom, and the fields of the result.   *)
(***************************************************************************)
Covariance(meat, scaling, df, cov_type, n_clusters, warnings) ==
    [err |-> "none", msg |-> "", meat |-> meat, scaling |-> scaling, df |-> df,
     cov_type |-> cov_type, n_clusters |-> n_clusters, warnings |-> warnings]
ZeroDivisionError == [err |-> "ZeroDivisionError", msg |-> "division by zero"]
\* X2[idx, :] with a boolean index idx that has not one entry per row
IndexError == [err |-> "IndexError", msg |-> "boolean index did not match"]

\* cov_ols(X=, resid=, cov_type=, clusters=, cov=); in is the request
cov_ols(in) ==
    LET n == in.n
        p == in.p
        spec == parse_cov_spec(in.cov, in.cov_type, in.clusters, n, TRUE)
        df_resid == n - p
    IN IF in.resid_rows # n
       THEN ValueError("resid must have the same number of rows as X.")
       ELSE IF n <= p THEN ValueError("Need n > p for covariance estimation.")
       ELSE IF spec.err # "none" THEN spec
       ELSE LET kind == spec.value.cov_type
            IN IF kind = s_unadjusted
               THEN Covariance("none", "sigma2", df_resid, s_unadjusted, 0, {})
               ELSE IF kind \in {s_HC0, s_HC1, s_HC2, s_HC3}
               THEN Covariance(IF kind = s_HC2 THEN "HC2"
                               ELSE IF kind = s_HC3 THEN "HC3" ELSE "HC0",
                               IF kind = s_HC1 /\ spec.value.small_sample
                               THEN "n/df" ELSE "none",
                               df_resid, kind, 0, {})
               ELSE IF kind = s_HAC
               THEN Covariance("HAC", "none", df_resid, s_HAC, 0, {})
               ELSE IF kind = s_cluster
               THEN IF IsNone(spec.value.clusters)
                    THEN ValueError("clusters must be provided when cov_type='cluster'.")
                    ELSE LET g == cluster_codes(spec.value.clusters)
                             G == UniqueSize(g)
                         IN IF G < 2
                            THEN ValueError("cluster covariance requires at least 2 clusters.")
                            ELSE IF Len(g) # n THEN IndexError
                            ELSE Covariance("cluster",
                                            IF spec.value.small_sample
                                            THEN "cluster_adj" ELSE "none",
                                            df_resid, s_cluster, G,
                                            cluster_warnings(g, p)
                                                \cup RankWarning(in.full_rank))
               ELSE ValueError("Unknown cov_type")

\* _moment_meat(X=, resid1=, resid2=, cov_type=, clusters=, ...) for X of n rows
moment_meat_unchecked(n, cov_type, clusters) ==
    IF cov_type = s_cluster
    THEN IF IsNone(clusters) THEN Ok("HC0")
         ELSE IF Len(cluster_codes(clusters)) # n THEN IndexError
         ELSE Ok("cluster")
    ELSE IF cov_type = s_HAC THEN Ok("HAC")
    ELSE IF cov_type = s_HC2 THEN Ok("HC2")
    ELSE IF cov_type = s_HC3 THEN Ok("HC3")
    ELSE Ok("HC0")

moment_meat(n, cov_type, clusters) ==
    IF cov_type = s_cluster
    THEN IF IsNone(clusters)
         THEN ValueError("clusters must be provided when cov_type='cluster'.")
         ELSE IF UniqueSize(cluster_codes(clusters)) < 2
         THEN ValueError("cluster covariance requires at least 2 clusters.")
         ELSE IF Len(cluster_codes(clusters)) # n THEN IndexError
         ELSE Ok("cluster")
    ELSE IF cov_type = s_HAC THEN Ok("HAC")
    ELSE IF cov_type = s_HC2 THEN Ok("HC2")
    ELSE IF cov_type = s_HC3 THEN Ok("HC3")
    ELSE Ok("HC0")

\* n_clusters of the result
ResultNClusters(spec) ==
    IF spec.cov_type # s_cluster THEN 0
    ELSE IF IsNone(spec.clusters) THEN 0
    ELSE UniqueSize(cluster_codes(spec.clusters))

\* compute_moment_cov(X=, resid=, cov_type=, clusters=, cov=, small_sample_adj=)
compute_moment_cov(in) ==
    LET n == in.n
        p == in.p
        parsed == parse_cov_spec(in.cov, in.cov_type, in.clusters, n,
                                 in.small_sample_adj)
        df_resid == n - p
    IN IF in.resid_rows # n
       THEN ValueError("resid must have the same number of rows as X.")
       ELSE IF n <= p THEN ValueError("Need n > p for covariance estimation.")
       ELSE IF parsed.err # "none" THEN parsed
       ELSE LET spec == parsed.value
                meat == moment_meat(n, spec.cov_type, spec.clusters)
            IN IF meat.err # "none" THEN meat
               ELSE IF spec.cov_type = s_unadjusted
               THEN Covariance("none", "sigma2", df_resid, spec.cov_type, 0, {})
               ELSE IF spec.cov_type = s_HC1 /\ in.small_sample_adj
               THEN Covariance(meat.value, "n/df", df_resid, spec.cov_type, 0, {})
               ELSE IF spec.cov_type = s_cluster /\ in.small_sample_adj
               THEN Covariance(meat.value, "cluster_adj", df_resid, spec.cov_type,
                               ResultNClusters(spec),
                               cluster_warnings(cluster_codes(spec.clusters), p)
                                   \cup RankWarning(in.full_rank))
               ELSE Covariance(meat.value, "none", df_resid, spec.cov_type,
                               ResultNClusters(spec), {})

\* cov_reduced_form(X=, resid_y=, resid_d=, cov_type=, clusters=, cov=,
\* small_sample_adj=, df_resid_adj=); an int divided by the int 0 raises,
\* an array divided by 0 does not
cov_reduced_form(in) ==
    LET n == in.n
        p == in.p
        parsed == parse_cov_spec(in.cov, in.cov_type, in.clusters, n,
                                 in.small_sample_adj)
        df_resid == n - p
        df_adj == IF IsNone(in.df_resid_adj) THEN df_resid ELSE in.df_resid_adj.value
    IN IF n <= p THEN ValueError("Need n > p for covariance estimation.")
       ELSE IF in.resid_rows # n
       THEN ValueError("residuals must have the same number of rows as X.")
       ELSE IF parsed.err # "none" THEN parsed
       ELSE LET spec == parsed.value
                meat == moment_meat(n, spec.cov_type, spec.clusters)
            IN IF meat.err # "none" THEN meat
               ELSE IF spec.cov_type = s_unadjusted
               THEN Covariance("none", "sigma2", df_adj, spec.cov_type, 0, {})
               ELSE IF spec.cov_type = s_HC1 /\ in.small_sample_adj
               THEN IF df_adj = 0 THEN ZeroDivisionError
                    ELSE Covariance(meat.value, "n/df", df_adj, spec.cov_type, 0, {})
               ELSE IF spec.cov_type = s_cluster /\ in.small_sample_adj
               THEN IF df_adj = 0 THEN ZeroDivisionError
                    ELSE Covariance(meat.value, "cluster_adj", df_adj, spec.cov_type,
                                    ResultNClusters(spec),
                                    cluster_warnings(cluster_codes(spec.clusters), p)
                                        \cup RankWarning(in.full_rank))
               ELSE Covariance(meat.value, "none", df_adj, spec.cov_type,
                               ResultNClusters(spec), {})

(***************************************************************************)
(* moment_covariance (cov/estimators.py) and the covariances of the        *)
(* estimators.                                                             *)
(***************************************************************************)
\* ClusterSpec.from_array(clusters): contiguous codes of the labels
ClusterSpec_from_array(clusters) ==
    [codes |-> UniqueInverse(clusters.values),
     n_clusters |-> UniqueSize(clusters.values)]

\* moment_covariance(z, residuals, kind=, clusters=, df_adjust=)
moment_covariance(in) ==
    LET n == in.n
        k == in.p
        kind == StrUpper(in.cov_type.s)
        rank == IF in.full_rank THEN {} ELSE {"Moment covariance is rank deficient"}
    IN IF ~IsNone(in.clusters)
       THEN LET spec == ClusterSpec_from_array(in.clusters)
                few == IF spec.n_clusters < 30 THEN {"Only few clusters"} ELSE {}
            IN IF ~in.small_sample_adj
               THEN Covariance("cluster", "none", n, s_cluster, spec.n_clusters, few)
               ELSE IF spec.n_clusters > 1 /\ n > k
               THEN Covariance("cluster", "cluster_adj", n - k, s_cluster,
                               spec.n_clusters, few)
               ELSE Covariance("cluster", "none", n, s_cluster, spec.n_clusters,
                               few \cup {"Cluster df adjustment skipped"})
       ELSE IF kind \in {StrUpper(s_homoskedastic), StrUpper(s_classical)}
       THEN Covariance("none", "sigma2",
                       IF in.small_sample_adj /\ n > k THEN n - k ELSE n,
                       kind, 0, rank)
       ELSE IF kind = s_HC0
       THEN Covariance("HC0", "none", n, kind, 0, rank)
       ELSE IF kind = s_HC1
       THEN IF in.small_sample_adj /\ n > k
            THEN Covariance("HC0", "n/df", n - k, kind, 0, rank)
            ELSE Covariance("HC0", "none", n, kind, 0,
                            rank \cup (IF in.small_sample_adj
                                       THEN {"HC1 df adjustment skipped"} ELSE {}))
       ELSE ValueError("Unknown covariance kind")

\* tsls(data, cov=, clusters=, df_adjust=) of estimators/tsls.py: the
\* covariance of the moments of the k_instr residualised instruments
tsls_moment_vcov(in) == moment_covariance(in)

\* tsls(data, cov_type=) of estimators.py; X = [x, d] has p columns
tsls_vcov(in) ==
    LET n == in.n
        df_resid == n - in.p
        kind == in.cov_type.s
    IN IF df_resid <= 0 THEN ValueError("Need n > number of regressors for 2SLS.")
       ELSE IF kind \in {s_HC0, s_HC1}
       THEN Covariance("HC0", IF kind = s_HC1 THEN "n/df" ELSE "none",
                       df_resid, kind, 0, {})
       ELSE IF kind = s_cluster
       THEN IF IsNone(in.clusters)
            THEN ValueError("Cluster covariance requested but data.clusters is None.")
            ELSE IF UniqueSize(in.clusters.values) < 2
            THEN ValueError("cluster covariance requires at least 2 clusters.")
            ELSE Covariance("cluster", "cluster_adj", df_resid, kind,
                            UniqueSize(in.clusters.values), {})
       ELSE ValueError("Unknown cov_type")

\* _kclass(data, kappa=, cov_type=) of estimators.py
kclass_flat_vcov(in) ==
    LET n == in.n
        df_resid == n - in.p
        kind == in.cov_type.s
    IN IF df_resid <= 0
       THEN ValueError("Need n > number of regressors for k-class estimation.")
       ELSE IF kind \in {s_HC0, s_HC1, s_HC2, s_HC3}
       THEN Covariance("HC0", IF kind = s_HC1 THEN "n/df" ELSE "none",
                       df_resid, kind, 0, {})
       ELSE IF kind = s_cluster
       THEN IF IsNone(in.clusters)
            THEN ValueError("Cluster covariance requested but data.clusters is None.")
            ELSE IF UniqueSize(in.clusters.values) < 2
            THEN ValueError("cluster covariance requires at least 2 clusters.")
            ELSE Covariance("cluster", "cluster_adj", df_resid, kind,
                            UniqueSize(in.clusters.values), {})
       ELSE ValueError("Unknown cov_type")

\* _kclass_cov(Xk, resid, cov_type=, clusters=) of estimators/liml.py
kclass_cov(n, cov_type, clusters) ==
    IF cov_type = s_cluster
    THEN IF IsNone(clusters)
         THEN ValueError("clusters must be provided when cov_type='cluster'.")
         ELSE LET spec == normalize_clusters(clusters, n)
              IN IF spec.err # "none" THEN spec
                 ELSE IF UniqueSize(spec.value.codes[1]) < 2
                 THEN ValueError("cluster covariance requires at least 2 clusters.")
                 ELSE Ok("cluster")
    ELSE IF cov_type = s_HAC THEN Ok("HAC")
    ELSE IF cov_type = s_HC2 THEN Ok("HC2")
    ELSE IF cov_type = s_HC3 THEN Ok("HC3")
    ELSE Ok("HC0")

\* kclass(data, kappa=, cov=, cov_type=, clusters=) of estimators/liml.py;
\* the cov argument is dropped (line 91)
kclass_vcov(in) ==
    LET n == in.n
        df_resid == n - in.p
        kind == in.cov_type.s
        meat == kclass_cov(n, kind, in.clusters)
    IN IF df_resid <= 0
       THEN ValueError("Need n > number of regressors for k-class estimation.")
       ELSE IF meat.err # "none" THEN meat
       ELSE IF kind = s_HC1
       THEN Covariance(meat.value, "n/df", df_resid, kind, 0, {})
       ELSE IF kind = s_cluster
       THEN Covariance(meat.value, "cluster_adj", df_resid, kind,
                       UniqueSize(in.clusters.values), {})
       ELSE Covariance(meat.value, "none", df_resid, kind, 0, {})

\* liml(data, cov=, cov_type=, clusters=) of estimators/liml.py
liml_vcov(in) == kclass_vcov(in)

\* fuller(data, alpha=, cov=, cov_type=, clusters=) of estimators/liml.py;
\* Z = [x, z] has zcols columns
fuller_vcov(in) ==
    IF in.n - in.zcols <= 0
    THEN ValueError("Need n > number of instruments for Fuller estimator.")
    ELSE kclass_vcov(in)

(***************************************************************************)
(* Covariance requests.                                                    *)
(***************************************************************************)
PyInt(v) == [tag |-> "int", value |-> v]

CovNames ==
    {s_unadjusted, s_homoskedastic, s_ols, s_HC0, s_HC1, s_hc1, s_HC2, s_HC3,
     s_cluster, StrUpper(s_cluster), s_HAC, s_bad, <<" ">> \o s_HC1 \o <<" ">>,
     <<>>}

\* the pairs <<cov, cov_type>> of a call; "HC1" is the default cov_type
CovConfigs ==
    {<<None, ct>> : ct \in {None} \cup {Str(s) : s \in CovNames}}
    \cup {<<Str(s), Str(s_HC1)>> : s \in CovNames}
    \cup {<<CovSpec(s, None, TRUE), Str(s_HC1)>> : s \in CovNames}
    \cup {<<Mapping(TRUE, s), Str(s_HC1)>> : s \in CovNames}
    \cup {<<Mapping(FALSE, <<>>), Str(s_HC1)>>,
          <<Str(s_HC0), Str(s_cluster)>>,
          <<CovSpec(s_unadjusted, None, FALSE), Str(s_bad)>>,
          <<CovSpec(s_HC1, None, FALSE), None>>,
          <<CovSpec(s_cluster, ClusterSpec(<<<<0, 0, 0>>>>, <<1>>, 3), TRUE), None>>,
          <<CovSpec(s_cluster, ClusterSpec(<<<<0, 1, 0>>>>, <<2>>, 3), TRUE), None>>}

\* cluster labels for n observations: every vector over two labels, one
\* cluster per observation, labels that differ by a fraction, a non-finite
\* label, a vector that is too short, a two-dimensional array, and two-way
\* clustering
ClusterInputs(n) ==
    {None}
    \cup {Labels(1, v) : v \in [1..n -> {0, LabelUnit}]}
    \cup {Labels(1, [i \in 1..n |-> i * LabelUnit]),
          Labels(1, [i \in 1..n |-> i % LabelUnit]),
          Labels(1, [i \in 1..n |-> IF i = n THEN NaN ELSE 0]),
          Labels(1, [i \in 1..(n - 1) |-> i * LabelUnit]),
          Labels(1 + 1, [i \in 1..n |-> 0]),
          [tag |-> "list",
           arrays |-> <<Labels(1, [i \in 1..n |-> 0]),
                        Labels(1, [i \in 1..n |-> (i % 2) * LabelUnit])>>]}

\* integer labels of length n, as IVData holds them
DataClusters(n) ==
    {None} \cup {Labels(1, v) : v \in [1..n -> {0, LabelUnit}]}

\* clusters of two observations each, with one more cluster of a single
\* observation when n is odd
PairedLabels(n) == Labels(1, [i \in 1..n |-> ((i + 1) \div 2) * LabelUnit])

\* <<n, p>>: rows and columns of the design
SmallDims == {<<n, p>> : n \in 1..MaxRows, p \in 1..MaxDim}
LargeDims ==
    {<<n, p>> : n \in {2 * CLUSTER_WARN_THRESHOLD, 2 * CLUSTER_WARN_THRESHOLD + 1},
                p \in {1, CLUSTER_WARN_THRESHOLD}}

\* clusters arguments for a design of n rows
ClustersFor(n) == IF n > MaxRows THEN {None, PairedLabels(n)} ELSE ClusterInputs(n)
DataClustersFor(n) == IF n > MaxRows THEN {None, PairedLabels(n)} ELSE DataClusters(n)
Dims == SmallDims \cup LargeDims

Request(fn, d, zcols, resid_rows, cc, clusters, small_sample_adj, df_resid_adj, full_rank) ==
    [fn |-> fn, n |-> d[1], p |-> d[2], zcols |-> zcols, resid_rows |-> resid_rows,
     cov |-> cc[1], cov_type |-> cc[2], clusters |-> clusters,
     small_sample_adj |-> small_sample_adj, df_resid_adj |-> df_resid_adj,
     full_rank |-> full_rank]

InitCov == cv = [fn |-> "none"] /\ cvOut = <<>>

\* the call with the request in ends with out
CovCall(in, out) ==
    /\ cv' = in
    /\ cvOut' = out

\* the residuals have the rows of X, or one row less; the rank of the
\* result is an outcome of the data
Call_cov_ols ==
    /\ cv.fn = "none"
    /\ \E d \in Dims, cc \in CovConfigs, rr \in {0, 1}, fr \in BOOLEAN :
        \E cl \in ClustersFor(d[1]) :
            /\ rr = 1 => IsNone(cl) /\ fr
            /\ ~fr => ~IsNone(cl)
            /\ LET in == Request("cov_ols", d, d[2], d[1] - rr, cc, cl, TRUE, None, fr)
               IN CovCall(in, cov_ols(in))

Call_compute_moment_cov ==
    /\ cv.fn = "none"
    /\ \E d \in Dims, cc \in CovConfigs, rr \in {0, 1}, fr \in BOOLEAN,
       ssa \in BOOLEAN :
        \E cl \in ClustersFor(d[1]) :
            /\ rr = 1 => IsNone(cl) /\ fr
            /\ ~fr => ~IsNone(cl)
            /\ LET in == Request("compute_moment_cov", d, d[2], d[1] - rr, cc, cl,
                                 ssa, None, fr)
               IN CovCall(in, compute_moment_cov(in))

\* df_resid_adj is absent or, as reduced_form passes it, n - k_instr - p_exog
Call_cov_reduced_form ==
    /\ cv.fn = "none"
    /\ \E d \in Dims, cc \in CovConfigs, rr \in {0, 1}, fr \in BOOLEAN,
       ssa \in BOOLEAN :
        \E cl \in ClustersFor(d[1]),
           df \in {None} \cup {PyInt(d[1] - d[2] - px) : px \in 1..MaxDim} :
            /\ rr = 1 => IsNone(cl) /\ fr
            /\ ~fr => ~IsNone(cl)
            /\ LET in == Request("cov_reduced_form", d, d[2], d[1] - rr, cc, cl,
                                 ssa, df, fr)
               IN CovCall(in, cov_reduced_form(in))

MomentNames == {Str(s) : s \in CovNames \cup {s_classical, s_hac}}

\* without clusters, and with the clusters of the data
Call_moment_covariance ==
    /\ cv.fn = "none"
    /\ \/ \E d \in Dims, ct \in MomentNames, fr \in BOOLEAN, ssa \in BOOLEAN :
              LET in == Request("moment_covariance", d, d[2], d[1], <<None, ct>>,
                                None, ssa, None, fr)
              IN CovCall(in, moment_covariance(in))
       \/ \E d \in Dims, ct \in MomentNames, fr \in BOOLEAN, ssa \in BOOLEAN :
              \E cl \in DataClustersFor(d[1]) \ {None} :
                  LET in == Request("moment_covariance", d, d[2], d[1],
                                    <<None, ct>>, cl, ssa, None, fr)
                  IN CovCall(in, moment_covariance(in))

Call_tsls_moment ==
    /\ cv.fn = "none"
    /\ \E d \in Dims, ct \in MomentNames, fr \in BOOLEAN, ssa \in BOOLEAN :
        \E cl \in DataClustersFor(d[1]) :
            LET in == Request("tsls (estimators/tsls.py)", d, d[2], d[1],
                              <<None, ct>>, cl, ssa, None, fr)
            IN CovCall(in, tsls_moment_vcov(in))

Call_tsls_vcov ==
    /\ cv.fn = "none"
    /\ \E d \in Dims, ct \in MomentNames :
        \E cl \in DataClustersFor(d[1]) :
            LET in == Request("tsls (estimators.py)", d, d[2], d[1], <<None, ct>>,
                              cl, TRUE, None, TRUE)
            IN CovCall(in, tsls_vcov(in))

Call_kclass_flat_vcov ==
    /\ cv.fn = "none"
    /\ \E d \in Dims, ct \in MomentNames :
        \E cl \in DataClustersFor(d[1]) :
            LET in == Request("_kclass (estimators.py)", d, d[2], d[1], <<None, ct>>,
                              cl, TRUE, None, TRUE)
            IN CovCall(in, kclass_flat_vcov(in))

\* the cov argument is None or a string; the clusters are the argument or,
\* without one, data.clusters
Call_kclass_vcov ==
    /\ cv.fn = "none"
    /\ \E d \in Dims, ct \in MomentNames, c \in {None, Str(s_bad), Str(s_HC0)} :
        \E cl \in ClustersFor(d[1]) :
            LET in == Request("kclass", d, d[2], d[1], <<c, ct>>, cl, TRUE, None, TRUE)
            IN CovCall(in, kclass_vcov(in))

Call_liml_vcov ==
    /\ cv.fn = "none"
    /\ \E d \in Dims, ct \in MomentNames, c \in {None, Str(s_HC0)} :
        \E cl \in ClustersFor(d[1]) :
            LET in == Request("liml", d, d[2], d[1], <<c, ct>>, cl, TRUE, None, TRUE)
            IN CovCall(in, liml_vcov(in))

Call_fuller_vcov ==
    /\ cv.fn = "none"
    /\ \E d \in Dims, ct \in MomentNames, zc \in 1..(MaxDim + 1),
          c \in {None, Str(s_HC0)} :
        \E cl \in ClustersFor(d[1]) :
            LET in == Request("fuller", d, zc, d[1], <<c, ct>>, cl, TRUE, None, TRUE)
            IN CovCall(in, fuller_vcov(in))

\* normalize_clusters(clusters, nobs=n) on label vectors of its own
NormalizeLabels == {-1, 0, 1, LabelUnit, LabelUnit + 1, NaN}
Call_normalize_clusters ==
    /\ cv.fn = "none"
    /\ \E n \in 1..MaxRows, m \in 0..MaxRows :
        \E v \in [1..m -> NormalizeLabels] :
            LET in == [fn |-> "normalize_clusters", n |-> n,
                       clusters |-> Labels(1, v)]
            IN CovCall(in, normalize_clusters(in.clusters, n))

InitCovSpec == InitCov /\ InvIdle /\ IsIdle /\ EpIdle /\ DIdle /\ TIdle /\ RIdle /\ SIdle

NextCov ==
    \/ Call_kclass_vcov /\ UNCHANGED <<invVars, isVars, epVars, dVars, tVars, rVars, sVars>>
    \/ Call_cov_ols /\ UNCHANGED <<invVars, isVars, epVars, dVars, tVars, rVars, sVars>>
    \/ Call_compute_moment_cov /\ UNCHANGED <<invVars, isVars, epVars, dVars, tVars, rVars, sVars>>
    \/ Call_cov_reduced_form /\ UNCHANGED <<invVars, isVars, epVars, dVars, tVars, rVars, sVars>>
    \/ Call_moment_covariance /\ UNCHANGED <<invVars, isVars, epVars, dVars, tVars, rVars, sVars>>
    \/ Call_tsls_moment /\ UNCHANGED <<invVars, isVars, epVars, dVars, tVars, rVars, sVars>>
    \/ Call_tsls_vcov /\ UNCHANGED <<invVars, isVars, epVars, dVars, tVars, rVars, sVars>>
    \/ Call_kclass_flat_vcov /\ UNCHANGED <<invVars, isVars, epVars, dVars, tVars, rVars, sVars>>
    \/ Call_liml_vcov /\ UNCHANGED <<invVars, isVars, epVars, dVars, tVars, rVars, sVars>>
    \/ Call_fuller_vcov /\ UNCHANGED <<invVars, isVars, epVars, dVars, tVars, rVars, sVars>>
    \/ Call_normalize_clusters /\ UNCHANGED <<invVars, isVars, epVars, dVars, tVars, rVars, sVars>>

SpecCov == InitCovSpec /\ [][NextCov]_vars

(***************************************************************************)
(* The reduced form and the tests built on it (weakiv_utils.py, lm.py,     *)
(* weakiv/lm.py, clr.py, weakiv/clr.py).  The data enter by their shape    *)
(* and by the scalars the tests compute from them: sigma_hat, xtx, the     *)
(* squared projection, score, info, q_beta - q_min and lambda1.  These     *)
(* floats are integers on the scale 1, chosen so that every quotient the   *)
(* code takes is exact.  A p-value is a record: a float on the scale       *)
(* AlphaOne, or the value of chi2.sf or of the quadrature at its           *)
(* arguments.                                                              *)
(***************************************************************************)
PFloat(v) == [fn |-> "float", x |-> v, df |-> 0]

\* scipy.stats.chi2.sf(x, df=df)
Chi2Sf(x, df) ==
    IF IsNaN(x) THEN PFloat(NaN)
    ELSE IF x <= 0 THEN PFloat(AlphaOne)
    ELSE IF x = PosInf THEN PFloat(0)
    ELSE [fn |-> "chi2.sf", x |-> x, df |-> df]

\* x / y of two Python floats, y > 0
FloatDiv(x, y) ==
    IF IsNaN(x) \/ IsNaN(y) THEN NaN
    ELSE IF IsInf(x) /\ IsInf(y) THEN NaN
    ELSE IF IsInf(x) THEN x
    ELSE IF IsInf(y) THEN 0
    ELSE x \div y

\* dof * x, dof an int
IntTimes(dof, x) ==
    IF IsNaN(x) THEN NaN
    ELSE IF IsInf(x) THEN (IF dof = 0 THEN NaN ELSE IF dof > 0 THEN x ELSE -x)
    ELSE dof * x

NotImplementedError == [err |-> "NotImplementedError", msg |-> "p_endog"]
TypeError(msg) == [err |-> "TypeError", msg |-> msg]

\* the ReducedFormResult that reduced_form builds from the result cov_res of
\* cov_reduced_form
ReducedFormResult(in, cov_res) ==
    IF cov_res.err # "none" THEN cov_res
    ELSE [err |-> "none", msg |-> "", cov |-> cov_res,
          cov_type |-> cov_res.cov_type, nobs |-> in.n,
          k_instr |-> in.k_instr, warnings |-> cov_res.warnings]

\* reduced_form(data, cov_type=cov_type, clusters=clusters)
reduced_form(in) ==
    IF in.p_endog # 1 THEN NotImplementedError
    ELSE ReducedFormResult(in, cov_reduced_form(
             [fn |-> "cov_reduced_form", n |-> in.n, p |-> in.k_instr,
              zcols |-> in.k_instr, resid_rows |-> in.n,
              cov |-> None, cov_type |-> in.cov_type,
              clusters |-> IF ~IsNone(in.clusters) THEN in.clusters
                           ELSE in.data_clusters,
              small_sample_adj |-> TRUE,
              df_resid_adj |-> PyInt(in.n - in.k_instr - in.p_exog),
              full_rank |-> in.full_rank]))

TestResult(statistic, pvalue, df, method, cov_type, warnings, rf) ==
    [err |-> "none", msg |-> "", statistic |-> statistic, pvalue |-> pvalue,
     df |-> df, method |-> method, cov_type |-> cov_type,
     warnings |-> warnings, rf |-> rf]

\* the closed-form branch of lm_test and kp_lm_test: <<stat, warnings, branch>>
lm_unadjusted(in) ==
    IF FLe(in.sigma_hat, 0) \/ ~IsFinite(in.sigma_hat)
    THEN <<0, {"LM sigma_hat not positive; statistic set to 0"}, "closed form">>
    ELSE IF FLe(in.xtx, 0) \/ ~IsFinite(in.xtx)
    THEN <<0, {"LM projection not positive; statistic set to 0"}, "closed form">>
    ELSE LET dof == in.n - in.k_instr - in.p_exog
         IN IF dof <= 0
            THEN <<FloatDiv(IntTimes(in.n - in.k_instr, in.ss), in.sigma_hat),
                   {"LM degrees of freedom nonpositive"}, "closed form">>
            ELSE <<FloatDiv(IntTimes(dof, in.ss), in.sigma_hat), {}, "closed form">>

\* the branch of lm_test and kp_lm_test on the covariance matrix of the
\* reduced form: <<stat, warnings, branch>>
lm_kp(in) ==
    IF FLe(in.info, 0) \/ ~IsFinite(in.info)
    THEN <<0, {"LM information term not positive; statistic set to 0"},
           "covariance matrix">>
    ELSE <<FloatDiv(in.score * in.score, in.info), {}, "covariance matrix">>

\* lm_test after its call of reduced_form has returned rf; the result also
\* records which branch computed the statistic
lm_test_after(in, rf, branch) ==
    IF rf.err # "none" THEN rf
    ELSE TestResult(branch[1], Chi2Sf(branch[1], 1), 1, "LM", in.cov_type,
                    rf.warnings \cup branch[2], rf)
         @@ [branch |-> branch[3]]

\* lm_test(data, beta0, cov_type=, clusters=) of lm.py
lm_test_result(in) ==
    lm_test_after(in, reduced_form(in),
                  IF in.cov_type = Str(s_unadjusted) THEN lm_unadjusted(in)
                  ELSE lm_kp(in))

\* kp_lm_test(data, beta0, cov=, cov_type=, clusters=) of weakiv/lm.py:
\* reduced_form takes no cov, hac_lags or kernel
kp_lm_test_result(in) ==
    IF in.p_endog # 1 THEN NotImplementedError
    ELSE TypeError("reduced_form() got an unexpected keyword argument 'cov'")

\* x + y of two floats
FloatAdd(x, y) ==
    IF IsNaN(x) \/ IsNaN(y) THEN NaN
    ELSE IF IsInf(x) /\ IsInf(y) THEN (IF x = y THEN x ELSE NaN)
    ELSE IF IsInf(x) THEN x
    ELSE IF IsInf(y) THEN y
    ELSE x + y

\* _clr_lambda(beta, rf=rf, p_exog=p_exog)
clr_lambda(in) ==
    IF FLe(in.sigma_hat, 0) \/ ~IsFinite(in.sigma_hat) THEN 0
    ELSE IF FLe(in.denom, 0) \/ ~IsFinite(in.denom) THEN 0
    ELSE LET dof == in.n - in.k_instr - in.p_exog
         IN IF dof <= 0 THEN 0
            ELSE PyMax(0, FloatDiv(IntTimes(dof, in.numer), in.denom))

\* x / y of two floats, y > 0, where the quotient is not an integer: the
\* fraction num / den, den > 0, or a float over 1
FloatRatio(x, y) ==
    IF IsFinite(x) /\ IsFinite(y) THEN [num |-> x, den |-> y]
    ELSE [num |-> FloatDiv(x, y), den |-> 1]

\* 1 - quad(integrand, 1 - a, 1, weight="alg", ...)[0]
Quadrature(stat, k, a) == [fn |-> "1 - quad", x |-> stat, df |-> k, a |-> a]

\* _clr_pvalue(stat=stat, k=k, lambda1=lambda1, tol=tol)
clr_pvalue_any_k(stat, k, lambda1) ==
    IF FLe(stat, 0) THEN PFloat(AlphaOne)
    ELSE IF FLe(lambda1, 0) THEN Chi2Sf(stat, k)
    ELSE LET a == FloatRatio(lambda1, FloatAdd(stat, lambda1))
         IN IF FLe(a.num, 0) THEN Chi2Sf(stat, k)
            ELSE Quadrature(stat, k, a)

clr_pvalue(stat, k, lambda1) ==
    IF FLe(stat, 0) THEN PFloat(AlphaOne)
    ELSE IF k <= 1 \/ FLe(lambda1, 0) THEN Chi2Sf(stat, k)
    ELSE LET a == FloatRatio(lambda1, FloatAdd(stat, lambda1))
         IN IF FLe(a.num, 0) THEN Chi2Sf(stat, k)
            ELSE Quadrature(stat, k, a)

\* clr_test after its call of reduced_form has returned rf; diff is
\* q_beta - q_min
clr_test_after(in, rf, stat) ==
    IF rf.err # "none" THEN rf
    ELSE TestResult(stat, clr_pvalue(stat, in.k_instr, clr_lambda(in)),
                    in.k_instr, "CLR", in.cov_type,
                    rf.warnings
                    \cup (IF in.p_exog + in.k_instr >= in.n
                          THEN {"degrees of freedom nonpositive; CLR may be unreliable"}
                          ELSE {}),
                    rf)

\* clr_test(data, beta0, cov_type=, clusters=) of clr.py
clr_test_result(in) ==
    clr_test_after(in, reduced_form(in), PyMax(0, in.diff))

\* clr_test(data, beta0, cov=, cov_type=, clusters=, method=) of
\* weakiv/clr.py: reduced_form takes no cov or kernel
weakiv_clr_test_result(in) ==
    IF in.p_endog # 1 THEN NotImplementedError
    ELSE TypeError("reduced_form() got an unexpected keyword argument 'cov'")

(***************************************************************************)
(* One call of a test.                                                     *)
(***************************************************************************)
\* <<nobs, k_instr, p_exog>> of the data
TestShapes ==
    {<<n, k, px>> : n \in 1..MaxRows, k \in 1..MaxDim, px \in 0..MaxDim}

TestKinds ==
    {Str(s) : s \in {s_unadjusted, s_homoskedastic, s_HC0, s_HC1, s_cluster}}

\* the clusters argument and the clusters of the data
TestClusters(n) == {None, Labels(1, [i \in 1..n |-> (i % 2) * LabelUnit])}

\* values of sigma_hat, xtx, info and denom
Quantities == {-1, 0, 1, 2, PosInf, NaN}
\* values of the squared projection, of numer and of score
Numerators == {0, 2}
\* values of q_beta - q_min
Differences == {NegInf, -1, 0, 1, 3, PosInf, NaN}

\* the fields every test reads
TestRequest(fn, shape, pe, kind, clusters, data_clusters, full_rank) ==
    [fn |-> fn, n |-> shape[1], k_instr |-> shape[2], p_exog |-> shape[3],
     p_endog |-> pe, cov_type |-> kind, clusters |-> clusters,
     data_clusters |-> data_clusters, full_rank |-> full_rank]

TestCall(in, out) ==
    /\ tq' = in
    /\ tOut' = out

InitTest == tq = [fn |-> "none"] /\ tOut = <<>>

Run_reduced_form ==
    /\ tq.fn = "none"
    /\ \E shape \in TestShapes, pe \in 1..MaxEndog, kind \in TestKinds,
          fr \in BOOLEAN :
        \E cl \in TestClusters(shape[1]), dcl \in TestClusters(shape[1]) :
            LET in == TestRequest("reduced_form", shape, pe, kind, cl, dcl, fr)
            IN TestCall(in, reduced_form(in))

Run_lm_test ==
    /\ tq.fn = "none"
    /\ \E shape \in TestShapes, pe \in 1..MaxEndog, kind \in TestKinds :
        \E cl \in TestClusters(shape[1]), sh \in Quantities, xtx \in Quantities,
           ss \in Numerators, info \in Quantities :
            /\ pe # 1 => sh = 1 /\ xtx = 1 /\ info = 1
            /\ LET in == TestRequest("lm_test", shape, pe, kind, cl, None, TRUE)
                      @@ [sigma_hat |-> sh, xtx |-> xtx, ss |-> ss,
                          score |-> ss, info |-> info]
               IN TestCall(in, lm_test_result(in))

Run_kp_lm_test ==
    /\ tq.fn = "none"
    /\ \E shape \in TestShapes, pe \in 1..MaxEndog, kind \in TestKinds,
          cov \in {None, Str(s_unadjusted), CovSpec(s_unadjusted, None, TRUE)} :
        \E cl \in TestClusters(shape[1]) :
            LET in == TestRequest("kp_lm_test", shape, pe, kind, cl, None, TRUE)
                      @@ [cov |-> cov]
            IN TestCall(in, kp_lm_test_result(in))

Run_clr_test ==
    /\ tq.fn = "none"
    /\ \E shape \in TestShapes, pe \in 1..MaxEndog, kind \in TestKinds :
        \E cl \in TestClusters(shape[1]), sh \in Quantities, denom \in Quantities,
           numer \in Numerators, diff \in Differences :
            /\ pe # 1 => sh = 1 /\ denom = 1 /\ diff = 1
            /\ LET in == TestRequest("clr_test", shape, pe, kind, cl, None, TRUE)
                      @@ [sigma_hat |-> sh, denom |-> denom, numer |-> numer,
                          diff |-> diff]
               IN TestCall(in, clr_test_result(in))

Run_weakiv_clr_test ==
    /\ tq.fn = "none"
    /\ \E shape \in TestShapes, pe \in 1..MaxEndog, kind \in TestKinds :
        \E cl \in TestClusters(shape[1]) :
            LET in == TestRequest("clr_test (weakiv/clr.py)", shape, pe, kind, cl,
                                  None, TRUE)
            IN TestCall(in, weakiv_clr_test_result(in))

\* the statistics and the values of lambda1 that clr_test and
\* clr_confidence_set hand to _clr_pvalue: max(0.0, .) of a float
ClrStatistics == {PyMax(0, d) : d \in Differences}
ClrLambdas == {0, 1, 3, PosInf}

Run_clr_pvalue ==
    /\ tq.fn = "none"
    /\ \E stat \in ClrStatistics, k \in 1..(MaxDim + 1), lambda1 \in ClrLambdas :
        TestCall([fn |-> "_clr_pvalue", stat |-> stat, k |-> k,
                  lambda1 |-> lambda1],
                 clr_pvalue(stat, k, lambda1))

InitTestSpec == InitTest /\ InvIdle /\ IsIdle /\ EpIdle /\ DIdle /\ CvIdle /\ RIdle /\ SIdle

NextTest ==
    \/ Run_lm_test /\ UNCHANGED <<invVars, isVars, epVars, dVars, cvVars, rVars, sVars>>
    \/ Run_reduced_form /\ UNCHANGED <<invVars, isVars, epVars, dVars, cvVars, rVars, sVars>>
    \/ Run_clr_test /\ UNCHANGED <<invVars, isVars, epVars, dVars, cvVars, rVars, sVars>>
    \/ Run_kp_lm_test /\ UNCHANGED <<invVars, isVars, epVars, dVars, cvVars, rVars, sVars>>
    \/ Run_weakiv_clr_test /\ UNCHANGED <<invVars, isVars, epVars, dVars, cvVars, rVars, sVars>>
    \/ Run_clr_pvalue /\ UNCHANGED <<invVars, isVars, epVars, dVars, cvVars, rVars, sVars>>

SpecTest == InitTestSpec /\ [][NextTest]_vars


(***************************************************************************)
(* Properties of the covariance routines.                                  *)
(***************************************************************************)
EngineRoutines == {"cov_ols", "compute_moment_cov", "cov_reduced_form"}
CovarianceRoutines == EngineRoutines \cup {"moment_covariance"}

\* the name of the covariance kind the caller gave: cov decides when it is
\* given, cov_type otherwise, "HC1" when neither names one
NameGiven(in) ==
    CASE in.cov.tag = "str" -> in.cov.s
      [] in.cov.tag = "CovSpec" -> in.cov.cov_type
      [] in.cov.tag = "Mapping" ->
           IF in.cov.has_cov_type THEN in.cov.cov_type ELSE s_HC1
      [] OTHER -> IF IsNone(in.cov_type) THEN s_HC1
                  ELSE IF in.cov_type.s = <<>> THEN s_HC1 ELSE in.cov_type.s

\* a request for the cluster regime; a CovSpec holds a normalized kind
ClusterRequested(in) ==
    IF in.cov.tag = "CovSpec" THEN in.cov.cov_type = s_cluster
    ELSE NameGiven(in) \in {s_cluster, StrUpper(s_cluster)}

\* the labels the request carries, and how many of them are distinct
LabelsGiven(in) ==
    IF in.cov.tag = "CovSpec"
    THEN IF IsNone(in.cov.clusters) THEN in.clusters ELSE in.cov.clusters
    ELSE in.clusters
DistinctLabels(cl) ==
    CASE cl.tag = "array" -> Cardinality({cl.values[i] : i \in DOMAIN cl.values})
      [] cl.tag = "list" ->
           Cardinality({[w \in DOMAIN cl.arrays |-> cl.arrays[w].values[i]] :
                           i \in DOMAIN cl.arrays[1].values})
      [] cl.tag = "ClusterSpec" ->
           Cardinality({[w \in DOMAIN cl.codes |-> cl.codes[w][i]] :
                           i \in DOMAIN cl.codes[1]})
      [] OTHER -> 0

\* the cases in which no covariance can be estimated
Inestimable(in) ==
    \/ in.n <= in.p
    \/ /\ ClusterRequested(in) \/ (in.fn = "moment_covariance" /\ ~IsNone(in.clusters))
       /\ DistinctLabels(LabelsGiven(in)) < 2

ClusterResult ==
    /\ cv.fn \in EngineRoutines
    /\ cvOut.err = "none"
    /\ cvOut.meat = "cluster"

\* some cluster of the one-way labels has exactly one observation
SingletonCluster(cl) ==
    /\ cl.tag = "array"
    /\ \E i \in DOMAIN cl.values :
          \A j \in DOMAIN cl.values \ {i} :
              AsInt64(cl.values[j]) # AsInt64(cl.values[i])

WarningDue ==
    \/ cvOut.n_clusters < CLUSTER_WARN_THRESHOLD
    \/ SingletonCluster(LabelsGiven(cv))
    \/ cv.p >= cvOut.n_clusters

\* C12: every covariance computed under the cluster regime by cov_ols,
\* compute_moment_cov or cov_reduced_form, with the small-sample adjustment
\* on or off, carries a warning when there are fewer than 10 clusters, when
\* some cluster has exactly one observation, or when the design has at
\* least as many columns as there are clusters.
C12_ClusterWarnings ==
    (ClusterResult /\ WarningDue) => cvOut.warnings # {}

\* the entry points that take a covariance kind
KindEntryPoints ==
    EngineRoutines
    \cup {"tsls (estimators.py)", "tsls (estimators/tsls.py)",
          "_kclass (estimators.py)", "kclass", "liml", "fuller"}

\* the names of the covariance kinds, compared without regard to case or to
\* surrounding white space
KnownKinds ==
    {s_unadjusted, s_homoskedastic, s_ols, s_hc0, s_hc1, s_hc2, s_hc3,
     s_cluster, s_hac}
UnknownKind(name) ==
    LET solid == {i \in DOMAIN name : name[i] # " "}
        core == IF solid = {} THEN <<>>
                ELSE [i \in 1..(SetMax(solid) - SetMin(solid) + 1) |->
                         name[SetMin(solid) + i - 1]]
    IN [i \in DOMAIN core |-> LowerChar(core[i])] \notin KnownKinds

\* C13: an entry point that takes a covariance kind raises ValueError when
\* the kind it is given is none of unadjusted (homoskedastic, ols), HC0,
\* HC1, HC2, HC3, cluster and HAC, whatever the case of the letters; it
\* does not compute a covariance for it.
C13_UnknownKindRejected ==
    (cv.fn \in KindEntryPoints /\ UnknownKind(NameGiven(cv)))
        => cvOut.err = "ValueError"

\* a call of normalize_clusters on one label vector that returned
NormalizeReturned ==
    /\ cv.fn = "normalize_clusters"
    /\ cvOut.err = "none"

\* C20: for every label vector normalize_clusters accepts, n_clusters is the
\* number of distinct labels, the codes are exactly 0..n_clusters-1, and two
\* observations have the same code if and only if their labels are equal.
C20_CodesFollowLabels ==
    NormalizeReturned =>
        LET labels == cv.clusters.values
            codes == cvOut.value.codes[1]
            G == cvOut.value.n_clusters[1]
        IN /\ G = Cardinality(Range(labels))
           /\ Range(codes) = 0..(G - 1)
           /\ \A i, j \in DOMAIN labels :
                  codes[i] = codes[j] <=> labels[i] = labels[j]


(***************************************************************************)
(* Properties of the reduced form and of the tests.                        *)
(***************************************************************************)
\* reduced_form and the tests of lm.py and clr.py built on it
ReducedFormCallers == {"reduced_form", "lm_test", "clr_test"}

\* a call on data with one endogenous regressor and more observations than
\* instruments, in a covariance regime that the call configures fully: the
\* cluster regime comes with labels
WellConfigured ==
    /\ tq.fn \in ReducedFormCallers
    /\ tq.p_endog = 1
    /\ tq.n > tq.k_instr
    /\ tq.cov_type = Str(s_cluster)
           => ~IsNone(tq.clusters) \/ ~IsNone(tq.data_clusters)

NonpositiveDf == tq.n - tq.k_instr - tq.p_exog <= 0

\* the covariance of the reduced form within the result of the call
ReducedFormCov == IF tq.fn = "reduced_form" THEN tOut.cov ELSE tOut.rf.cov

DfWarnings ==
    {"LM degrees of freedom nonpositive",
     "degrees of freedom nonpositive; CLR may be unreliable"}

\* C14: when n - k_instr - p_exog <= 0 and n > k_instr, reduced_form, lm_test
\* and clr_test return in every covariance regime, the covariance of the
\* reduced form is adjusted with df = n - k_instr, and the result of a test
\* carries a degrees-of-freedom warning.
C14_NonpositiveDfClamped ==
    (WellConfigured /\ NonpositiveDf) =>
        /\ tOut.err = "none"
        /\ ReducedFormCov.df = tq.n - tq.k_instr
        /\ tq.fn # "reduced_form" => tOut.warnings \cap DfWarnings # {}


\* a call of lm_test in which the quantity its branch divides by is not a
\* positive finite number
Degenerate(v) == FLe(v, 0) \/ ~IsFinite(v)
ClosedFormCall == tq.cov_type = Str(s_unadjusted)
DegenerateName ==
    IF ClosedFormCall
    THEN IF Degenerate(tq.sigma_hat) THEN "sigma_hat"
         ELSE IF Degenerate(tq.xtx) THEN "projection"
         ELSE "none"
    ELSE IF Degenerate(tq.info) THEN "information" ELSE "none"

WarningNaming(q) ==
    CASE q = "sigma_hat" -> "LM sigma_hat not positive; statistic set to 0"
      [] q = "projection" -> "LM projection not positive; statistic set to 0"
      [] q = "information" -> "LM information term not positive; statistic set to 0"

LmCalls == {"lm_test", "kp_lm_test"}

\* C15: a well-configured call of lm_test or kp_lm_test in which sigma_hat,
\* the norm of the projected regressor or the information term is <= 0 or
\* not finite returns statistic 0 and p-value 1 with a warning that names
\* the quantity.
C15_DegenerateGivesZero ==
    (/\ tq.fn \in LmCalls
     /\ tq.p_endog = 1
     /\ tq.n > tq.k_instr
     /\ tq.cov_type = Str(s_cluster) => ~IsNone(tq.clusters)
     /\ tq.fn = "lm_test" => DegenerateName # "none")
        => /\ tOut.err = "none"
           /\ tOut.statistic = 0
           /\ tOut.pvalue = PFloat(AlphaOne)
           /\ WarningNaming(DegenerateName) \in tOut.warnings


\* a call of _clr_pvalue that took the quadrature
QuadratureEntered == tOut.fn = "1 - quad"

\* C16: _clr_pvalue returns 1 when the statistic is <= 0; it returns
\* chi2.sf(stat, k) when the statistic is positive and k <= 1 or
\* lambda1 <= 0; it enters the quadrature only when stat > 0, k >= 2 and
\* lambda1 > 0; and with k = 1 its value is chi2.sf(stat, 1).
C16_ClrPValueFallbacks ==
    tq.fn = "_clr_pvalue" =>
        /\ FLe(tq.stat, 0) => tOut = PFloat(AlphaOne)
        /\ (FGt(tq.stat, 0) /\ (tq.k <= 1 \/ FLe(tq.lambda1, 0)))
               => tOut = Chi2Sf(tq.stat, tq.k)
        /\ QuadratureEntered
               => FGt(tq.stat, 0) /\ tq.k >= 2 /\ FGt(tq.lambda1, 0)
        /\ tq.k = 1 => tOut = Chi2Sf(tq.stat, 1)

\* one instrument, a positive finite statistic and lambda1 > 0: the value is
\* that of chi2.sf
C16_Witness ==
    /\ tq.fn = "_clr_pvalue"
    /\ tq.k = 1
    /\ FGt(tq.stat, 0) /\ IsFinite(tq.stat)
    /\ FGt(tq.lambda1, 0)
    /\ tOut.fn = "chi2.sf"


\* a call of lm_test or kp_lm_test that returned
LmReturned == tq.fn \in LmCalls /\ tOut.err = "none"

\* the covariance regime in effect: the one in which the covariance of the
\* reduced form was computed
RegimeInEffect == tOut.rf.cov.cov_type

\* C17: lm_test / kp_lm_test computes its statistic by the closed form
\* exactly when the covariance regime in effect is unadjusted, under
\* whichever name the caller asked for it, and from the covariance matrix
\* of the reduced form in every other regime.
C17_ClosedFormIffUnadjusted ==
    LmReturned =>
        (tOut.branch = "closed form" <=> RegimeInEffect = s_unadjusted)


(***************************************************************************)
(* Repeated calls of invert_test (weakiv/inversion.py) with the same       *)
(* arguments.  The result of a call is the pair of the interval set and    *)
(* the dictionary grid_info; runtime is the difference of two readings of  *)
(* time.perf_counter().                                                    *)
(***************************************************************************)
MaxCalls == 2
MaxExpansions == 2
Runtimes == {1, 2}

\* lines 69-78
InvertTestReturn(cs, g, pv, bounds, a, runtime) ==
    IF cs.err # "none" THEN [err |-> cs.err]
    ELSE [err |-> "none",
          intervals |-> cs.intervals,
          grid_info |-> [grid |-> g, pvalues |-> pv, beta_bounds |-> bounds,
                         n_grid |-> Len(g), evaluations |-> Len(g),
                         runtime |-> runtime, alpha |-> a]]

\* lines 53-78, on the grid g of lines 35-51
InvertTestOn(in, g, pv, runtime) ==
    IF g.err # "none" THEN [err |-> g.err]
    ELSE InvertTestReturn(
             invert_pvalue_grid(g.grid, pv, in.alpha, in.inversion_spec.refine,
                                in.inversion_spec.refine_tol,
                                in.inversion_spec.max_refine_iter, TRUE, in.test_fn),
             g.grid, pv,
             IF in.grid_spec.has_grid THEN <<g.grid[1], g.grid[Len(g.grid)]>>
             ELSE <<in.grid_spec.lo, in.grid_spec.hi>>,
             in.alpha, runtime)

\* pvals[i] = float(test_fn(float(b0))) for every b0 of the grid
EvaluateOn(f, g) == [i \in 1..Len(g.grid) |-> EvalFn(f, g.grid[i])]

\* invert_test(test_fn=, alpha=, grid_spec=, inversion_spec=) with both the
\* interval set and grid_info in the result
invert_test_timed(in, g, runtime) ==
    InvertTestOn(in, g, EvaluateOn(in.test_fn, g), runtime)

RepeatGridSpecs ==
    {Explicit(Positions), Explicit(SubSeq(Positions, 1, MinExplicitGrid - 1)),
     Generated(0, (MinNGrid - 1) * GridUnit, MinNGrid)}

InitRepeat ==
    /\ rq \in [alpha : Alphas, grid_spec : RepeatGridSpecs,
               inversion_spec : InvSpecs, test_fn : TestFns]
    /\ rOut = <<>>

\* one more call with the arguments rq
InvertTestAgain ==
    /\ Len(rOut) < MaxCalls
    /\ \E runtime \in Runtimes :
          rOut' = Append(rOut, invert_test_timed(
                                   rq, InvertTestGrid(rq.alpha, rq.grid_spec),
                                   runtime))
    /\ rq' = rq

InitRepeatSpec ==
    InitRepeat /\ InvIdle /\ IsIdle /\ EpIdle /\ DIdle /\ CvIdle /\ TIdle /\ SIdle

NextRepeat ==
    InvertTestAgain
    /\ UNCHANGED <<invVars, isVars, epVars, dVars, cvVars, tVars, sVars>>

SpecRepeat == InitRepeatSpec /\ [][NextRepeat]_vars

\* C18: two calls of invert_test with the same pure test_fn, alpha,
\* grid_spec and inversion_spec return equal interval sets and equal
\* diagnostics dictionaries.
C18_SameArgumentsSameResult ==
    \A i, j \in DOMAIN rOut : rOut[i] = rOut[j]


(***************************************************************************)
(* The confidence-set routines of lm.py, clr.py, ar.py and weakiv/ar.py.   *)
(* The data enter by p_endog, by the default search bounds computed from   *)
(* them and by the function fn that gives the p-value (lm, clr) or the     *)
(* statistic (ar) of the test at every beta.  The result is the interval   *)
(* set and the warnings of the returned object.                            *)
(***************************************************************************)
SetResult(intervals, warnings) ==
    [err |-> "none", intervals |-> intervals, warnings |-> warnings]
SetError(e) == [err |-> e, intervals |-> <<>>, warnings |-> {}]

\* lm_confidence_set, lines 103-129 (clr_confidence_set, lines 169-190): the
\* grid, or the error raised
ConfidenceSetGrid(in) ==
    IF ~AlphaValid(in.alpha) THEN [err |-> "ValueError", grid |-> <<>>]
    ELSE IF ~in.grid_spec.has_grid /\ in.grid_spec.n_grid < MinNGrid
    THEN [err |-> "ValueError", grid |-> <<>>]
    ELSE IF in.p_endog # 1 THEN [err |-> "NotImplementedError", grid |-> <<>>]
    ELSE IF ~in.grid_spec.has_grid
    THEN IF ~IsFinite(in.bounds[1]) \/ ~IsFinite(in.bounds[2])
            \/ in.bounds[1] >= in.bounds[2]
         THEN [err |-> "ValueError", grid |-> <<>>]
         ELSE [err |-> "none",
               grid |-> Linspace(in.bounds[1], in.bounds[2], in.grid_spec.n_grid)]
    ELSE IF Len(in.grid_spec.grid) < MinExplicitGrid
    THEN [err |-> "ValueError", grid |-> <<>>]
    ELSE [err |-> "none", grid |-> in.grid_spec.grid]

\* lines 148-160: ConfidenceSetResult(confidence_set=cs, alpha=, method=,
\* grid_info=), warnings left at its default ()
ConfidenceSetReturn(cs) ==
    IF cs.err # "none" THEN SetError(cs.err)
    ELSE SetResult(cs.intervals, {})

\* lines 130-146
ConfidenceSetOn(in, g) ==
    IF g.err # "none" THEN SetError(g.err)
    ELSE ConfidenceSetReturn(
             invert_pvalue_grid(g.grid, EvaluateOn(in.fn, g), in.alpha,
                                in.inversion_spec.refine,
                                in.inversion_spec.refine_tol,
                                in.inversion_spec.max_refine_iter, TRUE, in.fn))

\* lm_confidence_set(data, alpha=, grid=, beta_bounds=, n_grid=, refine=, ...)
\* of lm.py
lm_confidence_set_result(in) == ConfidenceSetOn(in, ConfidenceSetGrid(in))

\* default_beta_bounds(data), and the bounds of lm.py, lines 113-118
DefaultBounds ==
    <<-(((MinNGrid - 1) \div 2) * GridUnit), ((MinNGrid - 1) \div 2) * GridUnit>>

\* clr.py.  The data enter clr_test and clr_confidence_set by the
\* minimum-distance objective q: beta -> q_beta, given like a p-value
\* function; k and lambda1 come from the same reduced form in both, so the
\* p-value is given as a function of the statistic.
\* _clr_pvalue: 1.0 at a statistic <= 0, strictly decreasing in the
\* statistic, 0.0 by underflow at large ones
ClrSf(stat) == IF stat <= 0 THEN AlphaOne ELSE IF stat >= AlphaOne THEN 0 ELSE AlphaOne - stat

\* _md_q_min(..., bounds=bounds): the minimum of q over [lo, hi] as
\* minimize_scalar(method="bounded") finds it
md_q_min(q, bounds) ==
    SetMin({EvalFn(q, x) :
               x \in {bounds[1], bounds[2]}
                      \cup {q.xs[i] : i \in {j \in 1..Len(q.xs) :
                                                bounds[1] <= q.xs[j] /\ q.xs[j] <= bounds[2]}}})

\* lines 200-206: the p-value at b0 given q_min
clr_pvalue_at(q, b0, q_min) == ClrSf(PyMax(0, EvalFn(q, b0) - q_min))

\* clr_test(data, beta0=b, ...).pvalue as a function of b (lines 119-135),
\* q_min taken over default_beta_bounds(data)
clr_test_pvalue(q) ==
    LET q_min == md_q_min(q, DefaultBounds)
    IN [xs |-> q.xs,
        vs |-> [i \in 1..Len(q.xs) |-> ClrSf(PyMax(0, q.vs[i] - q_min))],
        kind |-> q.kind, c |-> ClrSf(PyMax(0, q.c - q_min))]

\* lines 220-232: ConfidenceSetResult(..., grid_info={"grid": grid,
\* "pvalues": pvals, ...})
ClrSetReturn(cs, g, pv) ==
    IF cs.err # "none" THEN SetError(cs.err)
    ELSE SetResult(cs.intervals, {}) @@ [grid |-> g.grid, pvalues |-> pv]

\* lines 208-218
ClrSetInvert(in, g, pv) ==
    ClrSetReturn(invert_pvalue_grid(g.grid, pv, in.alpha,
                                    in.inversion_spec.refine,
                                    in.inversion_spec.refine_tol,
                                    in.inversion_spec.max_refine_iter, TRUE,
                                    clr_test_pvalue(in.fn)),
                 g, pv)

\* lines 192-206: q_min over (lo, hi), the ends of the grid, and the
\* p-value at every grid point
ClrSetOn(in, g, q_min) ==
    ClrSetInvert(in, g, [i \in 1..Len(g.grid) |-> clr_pvalue_at(in.fn, g.grid[i], q_min)])

\* clr_confidence_set(data, alpha=, grid=, beta_bounds=, n_grid=, ...) of
\* clr.py
clr_confidence_set_result(in) ==
    LET g == ConfidenceSetGrid(in)
    IN IF g.err # "none" THEN SetError(g.err)
       ELSE ClrSetOn(in, g, md_q_min(in.fn, <<g.grid[1], g.grid[Len(g.grid)]>>))

\* ar_confidence_set of ar.py, lines 187-211: the grid, or the error raised
ArGrid(in) ==
    IF ~AlphaValid(in.alpha) THEN [err |-> "ValueError", grid |-> <<>>]
    ELSE IF in.grid_spec.n_grid < MinNGrid THEN [err |-> "ValueError", grid |-> <<>>]
    ELSE IF in.p_endog # 1 THEN [err |-> "NotImplementedError", grid |-> <<>>]
    ELSE IF ~IsFinite(in.bounds[1]) \/ ~IsFinite(in.bounds[2])
            \/ in.bounds[1] >= in.bounds[2]
    THEN [err |-> "ValueError", grid |-> <<>>]
    ELSE [err |-> "none",
          grid |-> Linspace(in.bounds[1], in.bounds[2], in.grid_spec.n_grid)]

\* stats <= critical
AcceptStats(stats, critical) == [i \in 1..Len(stats) |-> FLe(stats[i], critical)]

\* np.isclose(a, b): abs(a - b) <= atol + rtol * abs(b), with rtol = 1e-05
\* and an atol of 1e-08 that is below the spacing of the model's floats
RtolInv == 100000

Abs(v) == IF v < 0 THEN -v ELSE v

IsClose(a, b) == Abs(a - b) * RtolInv <= Abs(b)

\* bisect(a, b) of ar.py, lines 222-245, on f = statistic - critical
ArBisect(in, a, b) ==
    Bisect(in.fn, TRUE, in.critical, in.inversion_spec.refine_tol,
           in.inversion_spec.max_refine_iter, a, b).val

\* lines 276-294: one segment (left, right) of grid values
ArRefined(in, left, right, step) ==
    <<IF IsClose(left, in.bounds[1]) THEN NegInf
      ELSE IF in.inversion_spec.refine THEN ArBisect(in, left - step, left)
      ELSE left,
      IF IsClose(right, in.bounds[2]) THEN PosInf
      ELSE IF in.inversion_spec.refine THEN ArBisect(in, right, right + step)
      ELSE right>>

\* lines 247-304: the segments of idx as grid values, then their refined
\* endpoints; ARConfidenceSetResult has no field for warnings
ArIntervals(in, g, segs) ==
    [k \in 1..Len(segs) |->
        ArRefined(in, g[segs[k][1]], g[segs[k][2]], g[2] - g[1])]

ArOn(in, g) ==
    IF g.err # "none" THEN SetError(g.err)
    ELSE SetResult(
             ArIntervals(in, g.grid,
                         Segments(FlatNonZero(
                             AcceptStats(EvaluateOn(in.fn, g), in.critical)))),
             {})

\* ar_confidence_set(data, alpha=, beta_bounds=, n_grid=, refine=,
\* refine_tol=, max_refine_iter=) of ar.py
ar_confidence_set_result(in) == ArOn(in, ArGrid(in))

\* _root_find_boundary(func, left, right, warnings): the root that brentq
\* returns lies in [left, right]; at is 0 for left and 1 for right
RootFindBoundary(left, right, at) == IF at = 0 THEN left ELSE right

\* np.sort(grid): NaN last
NpSort(g) ==
    [k \in 1..Len(g) |->
        g[CHOOSE i \in 1..Len(g) :
              Cardinality({j \in 1..Len(g) :
                              g[j] < g[i] \/ (g[j] = g[i] /\ j < i)}) = k - 1]]

\* the statistics on the grid
StatsOn(f, g) == [i \in 1..Len(g) |-> EvalFn(f, g[i])]

\* float(grid_arr.mean()) of a finite grid
RECURSIVE SeqSum(_)
SeqSum(g) == IF g = <<>> THEN 0 ELSE Head(g) + SeqSum(Tail(g))
GridMean(g) == SeqSum(g) \div Len(g)

\* _build_grid(center=grid.mean(), scale=(grid[-1] - grid[0]) / 2,
\* grid_size=, expand=expand_factor): half_width = max(scale * expand, 1.0).
\* From a grid with a non-finite point np.linspace gives NaN everywhere,
\* but for a last point that it sets to its infinite stop.
BuildGrid(g, grid_size, expand) ==
    IF GridFinite(g)
    THEN Linspace(GridMean(g) - PyMax(((g[Len(g)] - g[1]) \div 2) * expand, GridUnit),
                  GridMean(g) + PyMax(((g[Len(g)] - g[1]) \div 2) * expand, GridUnit),
                  grid_size)
    ELSE [i \in 1..grid_size |->
             IF i = grid_size /\ \A k \in 1..Len(g) : g[k] \notin {NaN, NegInf}
             THEN PosInf ELSE NaN]

\* The exit of the expansion loop, lines 258-283.
ExpandExit(in, g, expansion, accept) ==
    [grid |-> g, accept |-> accept, expansions |-> expansion,
     unbounded_left |-> accept[1] /\ expansion = in.max_expansions,
     unbounded_right |-> accept[Len(g)] /\ expansion = in.max_expansions]

\* The expansion loop, lines 245-283: for expansion in
\* range(max_expansions + 1), the grid is rebuilt while its first or last
\* point is accepted.
RECURSIVE ExpandLoop(_, _, _)

\* Variant of the loop body that stops expanding one pass early.
ExpandStepShort(in, g, expansion, accept) ==
    IF (accept[1] \/ accept[Len(g)]) /\ expansion + 1 < in.max_expansions
    THEN ExpandLoop(in, BuildGrid(g, in.grid_size, in.expand_factor), expansion + 1)
    ELSE ExpandExit(in, g, expansion, accept)

RECURSIVE ExpandStep(_, _, _, _)
ExpandStep(in, g, expansion, accept) ==
    IF (accept[1] \/ accept[Len(g)]) /\ expansion # in.max_expansions
    THEN ExpandLoop(in, BuildGrid(g, in.grid_size, in.expand_factor), expansion + 1)
    ELSE ExpandExit(in, g, expansion, accept)

ExpandLoop(in, g, expansion) ==
    ExpandStep(in, g, expansion, AcceptStats(StatsOn(in.fn, g), in.critical))

\* lines 285-322: a segment at an end of the final grid is unbounded on
\* that side when the loop said so, and every other side is root-found
\* between the boundary grid point and its neighbour
WeakivArIntervals(ex, segs, at) ==
    [k \in 1..Len(segs) |->
        <<IF segs[k][1] = 1
          THEN IF ex.unbounded_left THEN NegInf ELSE ex.grid[1]
          ELSE RootFindBoundary(ex.grid[segs[k][1] - 1], ex.grid[segs[k][1]], at),
          IF segs[k][2] = Len(ex.grid)
          THEN IF ex.unbounded_right THEN PosInf ELSE ex.grid[Len(ex.grid)]
          ELSE RootFindBoundary(ex.grid[segs[k][2]], ex.grid[segs[k][2] + 1], at)>>]

\* lines 324-338: the warning of an empty set, the final grid and
\* diagnostics['expansions']
WeakivArReturn(intervals, ex) ==
    SetResult(intervals,
              IF Len(intervals) = 0
              THEN {"AR confidence set is empty on the evaluated grid."}
              ELSE {})
    @@ [grid |-> ex.grid, expansions |-> ex.expansions]

WeakivArOn(in, ex) ==
    WeakivArReturn(
        WeakivArIntervals(ex, Segments(FlatNonZero(ex.accept)), in.root_at), ex)

\* ar_confidence_set(data, alpha=, grid=grid, grid_size=, max_expansions=,
\* expand_factor=) of weakiv/ar.py: alpha is not validated, crit =
\* chi2.ppf(1 - alpha, df) is in.critical; accept[0] of an empty grid raises
weakiv_ar_confidence_set_result(in) ==
    IF in.p_endog # 1 THEN SetError("NotImplementedError")
    ELSE IF Len(in.grid_spec.grid) = 0 THEN SetError("IndexError")
    ELSE WeakivArOn(in, ExpandLoop(in, NpSort(in.grid_spec.grid), 0))

(***************************************************************************)
(* One call of a confidence-set routine.                                   *)
(***************************************************************************)
SetAlphas == {AlphaOne \div 4, AlphaOne \div 2, AlphaOne}

SetGridSpecs ==
    {Explicit(Positions), Explicit(SubSeq(Positions, 1, MinExplicitGrid - 1)),
     Generated(0, (MinNGrid - 1) * GridUnit, MinNGrid),
     Generated(0, (MinNGrid - 1) * GridUnit, MinNGrid - 1),
     Generated(GridUnit, 0, MinNGrid),
     [Generated(0, 0, MinNGrid) EXCEPT !.has_bounds = FALSE]}

\* chi2.ppf(1 - alpha, df), on the scale of the statistics
Criticals == {AlphaOne \div 4}

SetRequest(fn, a, pe, gs, is, f) ==
    [name |-> fn, alpha |-> a, p_endog |-> pe, grid_spec |-> gs,
     bounds |-> IF gs.has_bounds THEN <<gs.lo, gs.hi>> ELSE DefaultBounds,
     inversion_spec |-> is, fn |-> f]

SetCall(in, out) ==
    /\ sq' = in
    /\ sOut' = out

InitSet == sq = [name |-> "none"] /\ sOut = <<>>

Run_lm_confidence_set ==
    /\ sq.name = "none"
    /\ \E a \in SetAlphas, pe \in 1..MaxEndog, gs \in SetGridSpecs,
          is \in InvSpecs, f \in TestFns :
        LET in == SetRequest("lm_confidence_set", a, pe, gs, is, f)
        IN SetCall(in, lm_confidence_set_result(in))

\* objectives q: beta -> q_beta
QVals == 0..2
QFns == {[xs |-> Positions, vs |-> v, kind |-> "nearest", c |-> 0] :
            v \in [1..MaxGrid -> QVals]}

\* a grid, and beta_bounds, that start above the first of the Positions
UpperGridSpecs ==
    {Explicit(SubSeq(Positions, 2, MaxGrid)),
     Generated(GridUnit, MinNGrid * GridUnit, MinNGrid)}

Run_clr_confidence_set ==
    /\ sq.name = "none"
    /\ \E a \in SetAlphas, pe \in 1..MaxEndog, gs \in SetGridSpecs \cup UpperGridSpecs,
          is \in InvSpecs, q \in QFns :
        LET in == SetRequest("clr_confidence_set", a, pe, gs, is, q)
        IN SetCall(in, clr_confidence_set_result(in))

\* beta_bounds far from zero with a fine grid: the grid points next to lo
\* are within rtol * abs(lo) of it
CloseLo == 4 * RtolInv
CloseStep == Pow2(1)
CloseGridSpec == Generated(CloseLo, CloseLo + (MinNGrid - 1) * CloseStep, MinNGrid)

\* statistics given at the first grid points above CloseLo, above the
\* critical value elsewhere
CloseFns ==
    {[xs |-> [i \in 1..MaxGrid |-> CloseLo + (i - 1) * CloseStep], vs |-> v,
      kind |-> "const", c |-> AlphaOne \div 2] : v \in [1..MaxGrid -> PVals]}

Run_ar_confidence_set ==
    /\ sq.name = "none"
    /\ \E a \in SetAlphas, pe \in 1..MaxEndog,
          gs \in {g \in SetGridSpecs : ~g.has_grid} \cup {CloseGridSpec},
          is \in InvSpecs, f \in TestFns \cup CloseFns, c \in Criticals :
        LET in == SetRequest("ar_confidence_set", a, pe, gs, is, f)
                  @@ [critical |-> c]
        IN SetCall(in, ar_confidence_set_result(in))

Run_weakiv_ar_confidence_set ==
    /\ sq.name = "none"
    /\ \E a \in SetAlphas, pe \in 1..MaxEndog,
          g \in (GoodGrids \ {HugeGrid}) \cup BadGrids \cup {<<>>}, f \in TestFns,
          c \in Criticals \cup {NaN}, at \in {0, 1}, m \in 0..MaxExpansions :
        /\ c = NaN <=> ~AlphaValid(a)
        /\ LET in == SetRequest("ar_confidence_set (weakiv/ar.py)", a, pe,
                                Explicit(g), InvSpec(FALSE, 0, 0), f)
                     @@ [critical |-> c, root_at |-> at, max_expansions |-> m,
                         grid_size |-> MaxGrid, expand_factor |-> 2]
           IN SetCall(in, weakiv_ar_confidence_set_result(in))

InitSetSpec ==
    InitSet /\ InvIdle /\ IsIdle /\ EpIdle /\ DIdle /\ CvIdle /\ TIdle /\ RIdle

NextSet ==
    \/ Run_lm_confidence_set
       /\ UNCHANGED <<invVars, isVars, epVars, dVars, cvVars, tVars, rVars>>
    \/ Run_clr_confidence_set
       /\ UNCHANGED <<invVars, isVars, epVars, dVars, cvVars, tVars, rVars>>
    \/ Run_ar_confidence_set
       /\ UNCHANGED <<invVars, isVars, epVars, dVars, cvVars, tVars, rVars>>
    \/ Run_weakiv_ar_confidence_set
       /\ UNCHANGED <<invVars, isVars, epVars, dVars, cvVars, tVars, rVars>>

SpecSet == InitSetSpec /\ [][NextSet]_vars

SetRoutines ==
    {"lm_confidence_set", "clr_confidence_set", "ar_confidence_set",
     "ar_confidence_set (weakiv/ar.py)"}

\* C19: a confidence-set routine that returns the empty interval set
\* returns it with a warning.
C19_EmptySetWarned ==
    (/\ sq.name \in SetRoutines
     /\ sOut.err = "none"
     /\ Len(sOut.intervals) = 0)
        => sOut.warnings # {}

(***************************************************************************)
(* Cost and shape of the refinement.                                       *)
(***************************************************************************)
\* the betas at which the refinements of the returned intervals called the
\* p-value function, one sequence per refined endpoint
RefinedEndpointCalls ==
    {result.trace[j].callsL : j \in 1..Len(result.trace)}
    \cup {result.trace[j].callsR : j \in 1..Len(result.trace)}

\* C22: every boundary refinement of invert_pvalue_grid makes at most
\* max_refine_iter bisection steps, that is at most max_refine_iter + 2
\* calls of the p-value function per refined endpoint, whatever the
\* function returns (NaN and values never near alpha included).
C22_RefinementBounded ==
    pc = "done" =>
        \A c \in RefinedEndpointCalls :
            Len(c) <= inversion_spec.max_refine_iter + 2

\* A refinement on a p-value function that is NaN between the grid points
\* uses all its steps.
C22_Witness ==
    /\ pc = "done"
    /\ inversion_spec.refine
    /\ inversion_spec.max_refine_iter = MaxRefineIter
    /\ test_fn.kind = "const" /\ test_fn.c = NaN
    /\ \E c \in RefinedEndpointCalls : Len(c) = MaxRefineIter + 2

\* ConfidenceSetResult.is_disjoint (results.py): len(self.intervals) > 1
ConfidenceSetResult_is_disjoint(S) == Len(S) > 1

\* C25: the interval set invert_test returns is in normalized form, with
\* refinement on or off: every interval has lower <= upper, each upper
\* bound is strictly below the next lower bound, normalized() returns the
\* same list, and ConfidenceSetResult.is_disjoint agrees with
\* IntervalSet.is_disjoint.
C25_ReturnedNormalized ==
    (pc = "done" /\ entry = "invert_test") =>
        /\ \A j \in 1..Len(result.intervals) :
               FLe(result.intervals[j][1], result.intervals[j][2])
        /\ \A j \in 2..Len(result.intervals) :
               FLt(result.intervals[j - 1][2], result.intervals[j][1])
        /\ IntervalSet_normalized(result.intervals) = result.intervals
        /\ ConfidenceSetResult_is_disjoint(result.intervals)
               = IntervalSet_is_disjoint(result.intervals)

\* the j-th returned interval and the run of accepted grid points it is for
RunOf(j) == <<NthRun(j), RunEnd(NthRun(j))>>

\* C26: with refine=True invert_pvalue_grid returns one interval per run
\* of accepted grid points, as with refine=False, unbounded on the same
\* sides (those of a run that contains the first or the last grid point),
\* and every other endpoint lies in the closed bracket between the run's
\* boundary grid point and its rejected neighbour; so every accepted grid
\* point is in the returned set.
C26_RefinedWithinBrackets ==
    (pc = "done" /\ inversion_spec.refine) =>
        /\ Len(result.intervals) = Cardinality(RunStarts)
        /\ \A j \in 1..Len(result.intervals) :
               LET s == RunOf(j)[1]
                   e == RunOf(j)[2]
                   iv == result.intervals[j]
               IN /\ (iv[1] = NegInf) = (s = 1)
                  /\ (iv[2] = PosInf) = (e = Len(grid))
                  /\ s > 1 => (grid[s - 1] <= iv[1] /\ iv[1] <= grid[s])
                  /\ e < Len(grid) => (grid[e] <= iv[2] /\ iv[2] <= grid[e + 1])
        /\ \A i \in 1..Len(grid) :
               Accepted(i) => IntervalSet_contains(result.intervals, grid[i])

(***************************************************************************)
(* Properties of the confidence sets of the AR test.                       *)
(***************************************************************************)
ArReturned == sq.name = "ar_confidence_set" /\ sOut.err = "none"

\* the grid of the call and the runs of grid points with statistic <=
\* critical, as pairs of grid indices
ArCallGrid == Linspace(sq.bounds[1], sq.bounds[2], sq.grid_spec.n_grid)
ArRuns ==
    LET acc == [i \in 1..Len(ArCallGrid) |->
                   FLe(EvalFn(sq.fn, ArCallGrid[i]), sq.critical)]
        firsts == {i \in 1..Len(acc) : acc[i] /\ (i = 1 \/ ~acc[i - 1])}
        lasts == {i \in 1..Len(acc) : acc[i] /\ (i = Len(acc) \/ ~acc[i + 1])}
    IN [first |-> firsts, last |-> lasts]
NthOf(S, j) == CHOOSE x \in S : Cardinality({y \in S : y < x}) = j - 1

\* C27: ar_confidence_set of ar.py decides unboundedness as
\* invert_pvalue_grid does: a returned interval has lower bound -inf (upper
\* bound +inf) exactly when its run of accepted grid points contains the
\* first (last) grid point, and a run strictly inside the grid gets two
\* finite endpoints.
C27_ArUnboundedAtGridEnds ==
    ArReturned =>
        /\ Len(sOut.intervals) = Cardinality(ArRuns.first)
        /\ \A j \in 1..Len(sOut.intervals) :
               /\ (sOut.intervals[j][1] = NegInf) = (NthOf(ArRuns.first, j) = 1)
               /\ (sOut.intervals[j][2] = PosInf)
                      = (NthOf(ArRuns.last, j) = Len(ArCallGrid))

WeakivArReturned ==
    sq.name = "ar_confidence_set (weakiv/ar.py)" /\ sOut.err = "none"

\* the statistic at the i-th point of the final grid is accepted
FinalAccepted(i) == FLe(EvalFn(sq.fn, sOut.grid[i]), sq.critical)

InFinalRange(v) ==
    IsFinite(v) /\ sOut.grid[1] <= v /\ v <= sOut.grid[Len(sOut.grid)]

ExpansionRule ==
    /\ sOut.expansions <= sq.max_expansions
    /\ \A j \in 1..Len(sOut.intervals) :
           /\ (sOut.intervals[j][1] = NegInf) = (j = 1 /\ FinalAccepted(1))
           /\ (sOut.intervals[j][2] = PosInf)
                  = (j = Len(sOut.intervals) /\ FinalAccepted(Len(sOut.grid)))
           /\ (sOut.intervals[j][1] = NegInf \/ sOut.intervals[j][2] = PosInf)
                  => sOut.expansions = sq.max_expansions
           /\ sOut.intervals[j][1] # NegInf => InFinalRange(sOut.intervals[j][1])
           /\ sOut.intervals[j][2] # PosInf => InFinalRange(sOut.intervals[j][2])

UnscaledHC1Requested ==
    /\ cv.fn = "cov_ols" /\ cvOut.err = "none"
    /\ cv.cov.tag = "CovSpec" /\ cv.cov.cov_type = s_HC1
    /\ ~cv.cov.small_sample

\* C29: parse_cov_spec leaves the small_sample flag of the configuration
\* passed as cov unchanged when the caller does not override it: cov_ols
\* with cov = CovSpec(cov_type='HC1', small_sample=False) applies no n/df
\* scaling.
C29_SmallSampleKept == UnscaledHC1Requested => cvOut.scaling = "none"

\* a k-class estimator returned, called with a cov string that names a
\* regime
KClassWithCov ==
    /\ cv.fn \in {"kclass", "liml", "fuller"} /\ cvOut.err = "none"
    /\ cv.cov.tag = "str"
    /\ normalize_cov_type(cv.cov.s).err = "none"

\* C23: kclass, liml and fuller compute their covariance under the
\* configuration the caller supplies: a cov that is given determines the
\* regime that is used and that the result reports as cov_type.
C23_CovDeterminesRegime ==
    KClassWithCov => cvOut.cov_type = normalize_cov_type(cv.cov.s).value

\* The rows of the input in which every array that is given is finite.
CompleteRows(in) ==
    SelectSeq(RowNumbers(Len(in.rows)),
              LAMBDA i : \/ in.rows[i] = "none"
                         \/ (in.rows[i] = "X_exog" /\ in.X_exog = "None")
                         \/ (in.rows[i] = "weights" /\ ~in.weights)
                         \/ (in.rows[i] = "time" /\ ~in.time))

\* C24: from_arrays with drop_missing=True keeps exactly the rows finite in
\* y, X_endog, Z, X_exog (and weights and time when given), in their order,
\* removes the same rows from weights, clusters and time, and when a row was
\* removed records the number removed in metadata['dropped_rows'], n being
\* the original row count minus that number (a dataset is returned whenever
\* some row is complete); with drop_missing=False a non-finite entry in y,
\* X_endog, Z or X_exog raises ValueError.
C24_ListwiseDeletion ==
    (dPc \in {"done", "raised"} /\ dIn.fn = "from_arrays") =>
        LET keep == CompleteRows(dIn)
            removed == Len(dIn.rows) - Len(keep)
        IN /\ (dIn.drop_missing /\ Len(keep) > 0) => dPc = "done"
           /\ (dIn.drop_missing /\ dPc = "done") =>
                 /\ dOut.y = keep /\ dOut.x_endog = keep /\ dOut.z = keep
                 /\ dIn.X_exog # "None" => dOut.x_exog = keep
                 /\ dIn.weights => dOut.weights = keep
                 /\ dIn.clusters => dOut.clusters = keep
                 /\ dIn.time => dOut.time = keep
                 /\ dOut.n = Len(dIn.rows) - removed
                 /\ removed > 0 => <<"dropped_rows", removed>> \in dOut.metadata
           /\ (/\ ~dIn.drop_missing
               /\ \E i \in 1..Len(dIn.rows) :
                     \/ dIn.rows[i] \in {"y", "X_endog", "Z"}
                     \/ (dIn.rows[i] = "X_exog" /\ dIn.X_exog # "None"))
              => dOut.err = "ValueError"

\* The middle row of three is non-finite in Z and is removed from all arrays.
C24_Witness ==
    /\ dPc = "done" /\ dIn.fn = "from_arrays" /\ dIn.drop_missing
    /\ dIn.rows = <<"none", "Z", "none">>
    /\ dIn.weights /\ dIn.clusters /\ dIn.time
    /\ dOut.y = <<1, 3>> /\ dOut.clusters = <<1, 3>> /\ dOut.n = 2
    /\ <<"dropped_rows", 1>> \in dOut.metadata

ClrSetReturned == sq.name = "clr_confidence_set" /\ sOut.err = "none"

\* C30: in clr_confidence_set the p-value recorded for each grid point is
\* the p-value clr_test returns at that beta (same reduced form, same
\* q_min), for every grid and every beta_bounds.
C30_GridPValueIsTestPValue ==
    ClrSetReturned =>
        \A i \in 1..Len(sOut.grid) :
            sOut.pvalues[i] = EvalFn(clr_test_pvalue(sq.fn), sOut.grid[i])

(***************************************************************************)
(* ar_test, lm_test and clr_test (ar.py, lm.py, clr.py) on a dataset and   *)
(* on the same dataset with the columns of z rescaled.  The dataset has    *)
(* one column x and k columns of z, all orthogonal and of comparable size; *)
(* column j of z is multiplied by 10^scale[j] and contributes t[j] to the  *)
(* statistic.  A diagonal matrix is the sequence of its entries, each zero *)
(* or a power of ten; the scalings stay within the range in which lstsq    *)
(* (rcond=None) keeps every column.                                        *)
(***************************************************************************)
PinvSymTolExp == 12
PinvTolExp == 15

ZeroEntry == [zero |-> TRUE, e |-> 0]
Pow10Entry(e) == [zero |-> FALSE, e |-> e]

\* np.max(vals) as a power of ten, over the entries that are not zero
MaxExp(a) == SetMax({a[i].e : i \in {j \in 1..Len(a) : ~a[j].zero}})

\* the inverse of a diagonal matrix that keeps the entries above
\* 10^-tolExp times the largest one
DiagPinv(a, tolExp) ==
    [i \in 1..Len(a) |->
        IF a[i].zero THEN ZeroEntry
        ELSE IF a[i].e > MaxExp(a) - tolExp THEN Pow10Entry(-a[i].e)
        ELSE ZeroEntry]

\* _pinv_sym(a): eigenvalues not above np.max(vals) * 1e-12 are inverted
\* to 0.0
pinv_sym(a) == DiagPinv(a, PinvSymTolExp)

\* np.linalg.pinv(a), rcond at its default
np_pinv(a) == DiagPinv(a, PinvTolExp)

\* X.T @ X for columns of sizes 10^scale[j]
Gram(scale) == [j \in 1..Len(scale) |-> Pow10Entry(2 * scale[j])]

\* bread @ meat @ bread, the meat being of the size of X.T @ X
Sandwich(bread, scale) ==
    [j \in 1..Len(scale) |->
        IF bread[j].zero THEN ZeroEntry
        ELSE Pow10Entry(2 * bread[j].e + 2 * scale[j])]

\* the terms b[j] * V_inv[j] * b[j] of a quadratic form: the coefficient
\* b[j] is of size 10^-scale[j] and an entry of V_inv that was kept is of
\* size 10^(2 * scale[j]), so the term is t[j] at every scale
QuadTerms(V_inv, t) == [j \in 1..Len(t) |-> IF V_inv[j].zero THEN 0 ELSE t[j]]

\* ar_test, lines 117-136: W = [x, z], cov_ols(X=W, ...), V_z, pinv, stat
ar_statistic(scale, t) ==
    LET W == <<0>> \o scale
        cov == Sandwich(pinv_sym(Gram(W)), W)
        V_z == SubSeq(cov, 2, Len(W))
    IN SeqSum(QuadTerms(np_pinv(V_z), t))

\* reduced_form and cov_reduced_form on Z = z with x partialled out, then
\* V_inv = _pinv_sym(rf.cov) of lm.py, line 60, and clr.py, line 123; the
\* blocks of y and of d have the same entries
reduced_form_V_inv(scale) == pinv_sym(Sandwich(pinv_sym(Gram(scale)), scale))

\* lm_test, lines 35-72: projections under "unadjusted", score and info
\* from V_inv otherwise
lm_statistic(scale, t, cov_type) ==
    IF cov_type = s_unadjusted THEN [num |-> SeqSum(t) * SeqSum(t), den |-> Len(t)]
    ELSE LET terms == QuadTerms(reduced_form_V_inv(scale), t)
             info == Cardinality({j \in 1..Len(t) : terms[j] # 0})
         IN IF info <= 0 THEN [num |-> 0, den |-> 1]
            ELSE [num |-> SeqSum(terms) * SeqSum(terms), den |-> info]

\* clr_test, lines 123-132: q_beta - q_min from V_inv
clr_statistic(scale, t) ==
    PyMax(0, SeqSum(QuadTerms(reduced_form_V_inv(scale), t)))

\* the statistic and chi2.sf or _clr_pvalue of it
ScaledResult(stat, df) ==
    [statistic |-> stat, pvalue |-> [fn |-> "sf", x |-> stat, df |-> df]]

\* rescalings by 10^-7 to 10^7; no two columns come to lie exactly at a
\* cut-off
ScaleExps == {-7, -2, 0, 2, 7}
MaxInstr == MaxDim
InstrScales == UNION {[1..k -> ScaleExps] : k \in 1..MaxInstr}
InstrTerms(k) == [1..k -> {1, 2}]
NoScale(k) == [j \in 1..k |-> 0]

\* the test on the data and on the data with z rescaled
ScaledPair(fn, scale, t, cov_type, base, scaled, df) ==
    TestCall([fn |-> fn, scale |-> scale, t |-> t, cov_type |-> cov_type],
             [base |-> ScaledResult(base, df), scaled |-> ScaledResult(scaled, df)])

Run_ar_test_scaled ==
    /\ tq.fn = "none"
    /\ \E scale \in InstrScales, ct \in {s_HC1, s_unadjusted} :
        \E t \in InstrTerms(Len(scale)) :
            ScaledPair("ar_test", scale, t, ct,
                       ar_statistic(NoScale(Len(scale)), t), ar_statistic(scale, t),
                       Len(scale))

Run_lm_test_scaled ==
    /\ tq.fn = "none"
    /\ \E scale \in InstrScales, ct \in {s_HC1, s_unadjusted} :
        \E t \in InstrTerms(Len(scale)) :
            ScaledPair("lm_test", scale, t, ct,
                       lm_statistic(NoScale(Len(scale)), t, ct),
                       lm_statistic(scale, t, ct), 1)

Run_clr_test_scaled ==
    /\ tq.fn = "none"
    /\ \E scale \in InstrScales, ct \in {s_HC1, s_unadjusted} :
        \E t \in InstrTerms(Len(scale)) :
            ScaledPair("clr_test", scale, t, ct,
                       clr_statistic(NoScale(Len(scale)), t), clr_statistic(scale, t),
                       Len(scale))

NextScale ==
    \/ Run_ar_test_scaled /\ UNCHANGED <<invVars, isVars, epVars, dVars, cvVars, rVars, sVars>>
    \/ Run_lm_test_scaled /\ UNCHANGED <<invVars, isVars, epVars, dVars, cvVars, rVars, sVars>>
    \/ Run_clr_test_scaled /\ UNCHANGED <<invVars, isVars, epVars, dVars, cvVars, rVars, sVars>>

SpecScale == InitTestSpec /\ [][NextScale]_vars

\* C21: for a dataset and the same dataset with z multiplied by a nonzero
\* constant or an invertible diagonal matrix, ar_test, lm_test and clr_test
\* at the same beta0 and covariance kind return the same statistic and
\* p-value, up to floating tolerance.
C21_ScaleInvariant ==
    tq.fn \in {"ar_test", "lm_test", "clr_test"} =>
        /\ tOut.scaled.statistic = tOut.base.statistic
        /\ tOut.scaled.pvalue = tOut.base.pvalue

====
